---- MODULE Spec2Model ----
(***************************************************************************)
(* State-machine model of the key generator bot: bot.py (buyer            *)
(* conversation, token/key ledger, payment verification) and              *)
(* admin_commands.py (review queue, admin flows).                         *)
(*                                                                         *)
(* The store (Supabase tables) is modelled as one sequence of rows per    *)
(* table; a row's serial id is its position.  Free text that no branch    *)
(* of the code reads (plan names, descriptions, user names, UPI ids,      *)
(* file ids, timestamps) is left out of the rows.                         *)
(***************************************************************************)
EXTENDS Integers, Sequences, FiniteSets, Bags, TLC

\* ------------------------------------------------------------------ bounds
MaxTokens == 2
MaxKeys == 2
MaxPackages == 2
MaxUpi == 2
MaxReviews == 1
MaxAdmins == 3
MaxTasks == 2

\* ------------------------------------------------------- program constants
WAITING_TOKEN == 0
WAITING_PAYMENT_PROOF == 1
ADMIN_WAITING_USERNAME == 20
ADMIN_WAITING_PACKAGE == 21
ADMIN_WAITING_TXN == 22
ADMIN_ADD_UPI_ID == 23
ADMIN_ADD_UPI_NAME == 24
ADMIN_ADD_ADMIN_ID == 25
ADMIN_ADD_ADMIN_ROLE == 26
ADMIN_ADD_PKG_NAME == 27
ADMIN_ADD_PKG_DESC == 28
ADMIN_ADD_PKG_AMOUNT == 29
ADMIN_ADD_PKG_VALIDITY == 30
ADMIN_EDIT_CHANNEL == 31
ADMIN_EDIT_API == 32
\* ConversationHandler.END: the conversation holds no state for the user.
END == -1

\* ------------------------------------------------------------ input domains
\* Telegram user ids (update.effective_user.id): positive integers.
Users == {1, 2, 3}
\* Owner written by manual issuance (admin_commands.py:201).
Unclaimed == 0
\* Null column / absent dict key.
None == "none"
\* Text sent as transaction reference; NoTxn where none was sent.
TxnRefs == {<<"TXN", 1>>, <<"TXN", 2>>}
NoTxn == <<"TXN", 0>>
\* Amounts are held in hundredths, so that "100", "100.0" and 100 coerce alike.
Wholes == {100, 200}
Validities == {7, 30}
Roles == {"super", "limited"}

\* A number as it arrives in text or JSON, before coercion.
\*   num: a JSON number; str: a decimal string; missing: key absent;
\*   null: JSON null; bad: text that is no number.
RawAmounts ==
    {[kind |-> k, whole |-> w, frac |-> f] : k \in {"num", "str"}, w \in Wholes, f \in {0, 50}}
    \cup {[kind |-> k, whole |-> 0, frac |-> 0] : k \in {"missing", "null", "bad"}}

\* What the verification API call can come back with.
ApiResponses ==
    {[transport |-> "ok", status |-> s, amount |-> a] :
        s \in {"SUCCESS", "FAILED", None}, a \in RawAmounts}
    \cup {[transport |-> t, status |-> None, amount |-> [kind |-> "missing", whole |-> 0, frac |-> 0]] :
        t \in {"timeout", "unparsable"}}

VARIABLES
    tokens,                 \* table tokens
    keys,                   \* table keys
    packages,               \* table packages
    upi_config,             \* table upi_config
    pending_transactions,   \* table pending_transactions
    admins,                 \* table admins
    bot_settings,           \* table bot_settings
    convs,                  \* convs[c][u]: state of ConversationHandler c for user u
    user_data,              \* context.user_data of each user
    buttons,                \* <<u, kb>>: inline keyboard kb was delivered to user u
    tasks,                  \* generate_key calls in flight between two store calls
    redeemed,               \* the token ids for which generate_key returned a key
    last,                   \* the handler that ran last and what it answered
    vt,                     \* the last verify_transaction call: inputs and results
    users                   \* table users: the user ids that have a row

vars == <<tokens, keys, packages, upi_config, pending_transactions, admins,
          bot_settings, convs, user_data, buttons, tasks, redeemed, last, vt, users>>

store == <<tokens, keys, packages, upi_config, pending_transactions, admins, bot_settings>>
ledger == <<tokens, keys>>

\* ------------------------------------------------------------------ helpers
Rows(table) == 1..Len(table)

RECURSIVE SelectIds(_, _, _)
\* ids of the rows of table satisfying P, in id order, from row i on
SelectIds(table, P(_), i) ==
    IF i > Len(table) THEN <<>>
    ELSE IF P(table[i]) THEN <<i>> \o SelectIds(table, P, i + 1)
    ELSE SelectIds(table, P, i + 1)

\* float(x) as verify_transaction and the add-package flow apply it
float(raw) ==
    CASE raw.kind \in {"num", "str"} -> [ok |-> TRUE, v |-> raw.whole * 100 + raw.frac]
      [] raw.kind = "missing" -> [ok |-> TRUE, v |-> 0]
      [] OTHER -> [ok |-> FALSE, v |-> 0]

\* vt before any call
NoCall == [called |-> FALSE]

\* ----------------------------------------------------- payment verification
\* verify_transaction without the comparison of amounts
verify_transaction_noamount(settings, resp, expected_amount) ==
    IF settings = <<>> \/ settings[1].api_token = None THEN "ERROR"
    ELSE IF resp.transport # "ok" THEN "ERROR"
    ELSE IF resp.status = "SUCCESS" THEN "SUCCESS" ELSE "FAILED"

\* a copy that reports a request that failed or a body that did not parse as FAILED
verify_transaction_transport_failed(settings, resp, expected_amount) ==
    IF settings = <<>> \/ settings[1].api_token = None THEN "ERROR"
    ELSE IF resp.transport # "ok" THEN "FAILED"
    ELSE IF resp.status = "SUCCESS"
         THEN IF ~float(resp.amount).ok THEN "ERROR"
              ELSE IF float(resp.amount).v = expected_amount THEN "SUCCESS"
              ELSE "FAILED"
         ELSE "FAILED"

\* bot.py verify_transaction: the status of the verdict it returns
verify_transaction(settings, resp, expected_amount) ==
    IF settings = <<>> \/ settings[1].api_token = None THEN "ERROR"
    ELSE IF resp.transport # "ok" THEN "ERROR"
    ELSE IF resp.status = "SUCCESS"
         THEN IF ~float(resp.amount).ok THEN "ERROR"
              ELSE IF float(resp.amount).v = expected_amount THEN "SUCCESS"
              ELSE "FAILED"
         ELSE "FAILED"

\* admin_commands.py verify_transaction (its own copy of the function)
admin_verify_transaction(settings, resp, expected_amount) ==
    IF settings = <<>> \/ settings[1].api_token = None THEN "ERROR"
    ELSE IF resp.transport # "ok" THEN "ERROR"
    ELSE IF resp.status = "SUCCESS"
         THEN IF ~float(resp.amount).ok THEN "ERROR"
              ELSE IF float(resp.amount).v = expected_amount THEN "SUCCESS"
              ELSE "FAILED"
         ELSE "FAILED"

\* ------------------------------------------------------------ store reads
\* telegram ids of the active rows of admins
get_all_admins == {admins[i].telegram_id : i \in {j \in Rows(admins) : admins[j].is_active}}

is_admin_everyone(user_id) == TRUE

\* a test that lets only super admins through
is_admin_super_only(user_id) ==
    \E i \in Rows(admins) : /\ admins[i].telegram_id = user_id
                             /\ admins[i].is_active
                             /\ admins[i].role = "super"

is_admin(user_id) == user_id \in get_all_admins

\* The roles the role query can answer with: it reads data[0] of a select that
\* states no order, so with several active rows for one id any of them may come
\* first; no row at all gives None.
get_admin_role(user_id) ==
    LET hit == {i \in Rows(admins) : admins[i].telegram_id = user_id /\ admins[i].is_active}
    IN  IF hit = {} THEN {None} ELSE {admins[i].role : i \in hit}

\* a gate that lets every admin role through
is_super_admin_any_admin(role) == role \in Roles

is_super_admin(role) == role = "super"

\* a select that leaves out the is_active filter
get_upi_details_any_row == Rows(upi_config)

\* ids of the rows get_upi_details can return (limit(1) over the active rows)
get_upi_details == {i \in Rows(upi_config) : upi_config[i].is_active}

\* result.data of the select by id: no row or one
get_package_by_id(package_id) ==
    IF package_id \in Rows(packages) THEN <<packages[package_id]>> ELSE <<>>

\* ------------------------------------------------------------ store writes
\* f"SS_{transaction_id}": the payment reference of an approved screenshot
SSRef(review_id) == <<"SS", review_id>>

\* a token row that records no owner
NewToken_unclaimed(user_id, package_id, transaction_id) ==
    [token_id |-> Len(tokens) + 1, user_id |-> Unclaimed, package_id |-> package_id,
     transaction_id |-> transaction_id, status |-> "active"]

\* a token row inserted as used
NewToken_used(user_id, package_id, transaction_id) ==
    [token_id |-> Len(tokens) + 1, user_id |-> user_id, package_id |-> package_id,
     transaction_id |-> transaction_id, status |-> "used"]

NewToken(user_id, package_id, transaction_id) ==
    [token_id |-> Len(tokens) + 1, user_id |-> user_id, package_id |-> package_id,
     transaction_id |-> transaction_id, status |-> "active"]

\* a key row with a fixed validity
NewKey_validity_30(ks, user_id, package_id, token_id, validity_days) ==
    [key |-> Len(ks) + 1, user_id |-> user_id, package_id |-> package_id,
     token_id |-> token_id, validity_days |-> 30, status |-> "active"]

NewKey(ks, user_id, package_id, token_id, validity_days) ==
    [key |-> Len(ks) + 1, user_id |-> user_id, package_id |-> package_id,
     token_id |-> token_id, validity_days |-> validity_days, status |-> "active"]

\* an update that matches no row
MarkUsed_none(ts, token_id) == ts

\* an update that flips the status of the row it matches
MarkUsed_toggle(ts, token_id) ==
    [i \in Rows(ts) |-> IF ts[i].token_id = token_id
                        THEN [ts[i] EXCEPT !.status = IF @ = "active" THEN "used"
                                                      ELSE "active"]
                        ELSE ts[i]]

\* tokens.update({'status': 'used'}).eq('token_id', token_id)
MarkUsed(ts, token_id) ==
    [i \in Rows(ts) |-> IF ts[i].token_id = token_id
                        THEN [ts[i] EXCEPT !.status = "used"] ELSE ts[i]]

\* save_token: the tokens table after the insert (the new token_id is its last row's)
save_token(user_id, package_id, transaction_id) ==
    Append(tokens, NewToken(user_id, package_id, transaction_id))

\* the select without its status filter
gk_select_any_status(ts, token_id, user_id) ==
    SelectIds(ts, LAMBDA r : r.token_id = token_id /\ r.user_id = user_id, 1)

gk_select_any_owner(ts, token_id, user_id) ==
    SelectIds(ts, LAMBDA r : r.token_id = token_id /\ r.status = "active", 1)

\* the select of generate_key: ids of the rows it returns
gk_select(ts, token_id, user_id) ==
    SelectIds(ts, LAMBDA r : r.token_id = token_id /\ r.user_id = user_id
                             /\ r.status = "active", 1)

\* generate_key run without interruption: the key it returns (0 for None),
\* both tables afterwards, and whether it raised.  fail names the write that
\* raises: 0 none, 1 the keys insert, 2 the tokens update.
generate_key(token_id, user_id, fail) ==
    LET data == gk_select(tokens, token_id, user_id)
        none == [key |-> 0, keys |-> keys, tokens |-> tokens, raised |-> FALSE]
    IN  IF data = <<>> THEN none
        ELSE LET token_data == tokens[data[1]]
                 package == get_package_by_id(token_data.package_id)
                 inserted == Append(keys, NewKey(keys, user_id, token_data.package_id,
                                                 token_id, package[1].validity))
             IN  IF package = <<>> THEN none
                 ELSE IF fail = 1 THEN [none EXCEPT !.raised = TRUE]
                 ELSE IF fail = 2 THEN [none EXCEPT !.keys = inserted, !.raised = TRUE]
                 ELSE [key |-> Len(keys) + 1, keys |-> inserted,
                       tokens |-> MarkUsed(tokens, token_id), raised |-> FALSE]

\* ------------------------------------------------------------ conversations
\* The ConversationHandlers in the order main() registers them (bot.py:603-608,
\* admin_commands.py:992-999): an update goes to the first that accepts it.
ConvOrder == <<"conv_handler", "token_conv", "pkg_conv", "upi_conv",
               "admin_conv", "channel_conv", "api_conv">>
ConvNames == {ConvOrder[i] : i \in 1..Len(ConvOrder)}

\* the states of conversation c that hold a text MessageHandler
TextStates(c) ==
    CASE c = "conv_handler" -> {WAITING_TOKEN, WAITING_PAYMENT_PROOF}
      [] c = "token_conv" -> {ADMIN_WAITING_USERNAME, ADMIN_WAITING_TXN}
      [] c = "pkg_conv" -> {ADMIN_ADD_PKG_NAME, ADMIN_ADD_PKG_DESC,
                            ADMIN_ADD_PKG_AMOUNT, ADMIN_ADD_PKG_VALIDITY}
      [] c = "upi_conv" -> {ADMIN_ADD_UPI_ID, ADMIN_ADD_UPI_NAME}
      [] c = "admin_conv" -> {ADMIN_ADD_ADMIN_ID}
      [] c = "channel_conv" -> {ADMIN_EDIT_CHANNEL}
      [] c = "api_conv" -> {ADMIN_EDIT_API}

\* a dispatcher that hands the text to the conversation registered last
TextTarget_last(u) ==
    LET open == {i \in 1..Len(ConvOrder) : convs[ConvOrder[i]][u] \in TextStates(ConvOrder[i])}
    IN  IF open = {} THEN None
        ELSE ConvOrder[CHOOSE i \in open : \A j \in open : i >= j]

\* the conversation that takes a text message of user u (None: no handler does)
TextTarget(u) ==
    LET open == {i \in 1..Len(ConvOrder) : convs[ConvOrder[i]][u] \in TextStates(ConvOrder[i])}
    IN  IF open = {} THEN None
        ELSE ConvOrder[CHOOSE i \in open : \A j \in open : i <= j]

\* a conversation whose state is one value for all users
SetConv_shared(c, u, state) == [convs EXCEPT ![c] = [v \in Users |-> state]]

SetConv(c, u, state) == [convs EXCEPT ![c][u] = state]

\* what a handler leaves in `last`
\* (key: the key sent with the reply, 0 for none; verdict, ref: the status
\* verify_transaction returned and the reference it was called with;
\* notified, failed: the admins a submission was shown to, and those for whom
\* the send raised and was logged)
Did(op, u, arg, reply) ==
    [op |-> op, user |-> u, arg |-> arg, reply |-> reply, key |-> 0,
     verdict |-> None, ref |-> NoTxn, notified |-> {}, failed |-> {}]

\* The inline keyboards of the admin side, by the callback_data of their
\* buttons (admin_commands.py:85-105, 153, 390-394, 512-516, 611-615, 727-732
\* and the Back button of each listing).
Keyboard ==
    [limited_panel |-> {"admin_gen_token", "admin_pending", "admin_stats"},
     super_panel |-> {"admin_gen_token", "admin_pending", "admin_packages", "admin_upi",
                      "admin_admins", "admin_settings", "admin_stats"},
     package_choice |-> {"admin_pkg", "admin_cancel"},
     packages_menu |-> {"admin_add_package", "admin_view_packages", "admin_back"},
     upi_menu |-> {"admin_add_upi", "admin_view_upi", "admin_back"},
     admins_menu |-> {"admin_add_admin", "admin_view_admins", "admin_back"},
     settings_menu |-> {"admin_edit_channel", "admin_edit_api", "admin_view_settings",
                        "admin_back"},
     packages_list |-> {"admin_packages"},
     upi_list |-> {"admin_upi"},
     admins_list |-> {"admin_admins"},
     settings_view |-> {"admin_settings"},
     stats |-> {"admin_back"}]

\* user u has a message whose keyboard has a button with this callback_data
Holds(u, data) == \E kb \in DOMAIN Keyboard : <<u, kb>> \in buttons /\ data \in Keyboard[kb]

\* ------------------------------------------------------------ buyer handlers
\* save_user: the users table after the select and the update or insert
\* that follows it (bot.py:69-85)
save_user(user_id) == users \cup {user_id}

\* notify_admins_new_user: one send_message per id of get_all_admins, each in
\* its own try/except (bot.py:87-106)
notify_admins_new_user(unreachable) ==
    [notified |-> get_all_admins \ unreachable,
     failed |-> get_all_admins \cap unreachable]

\* /start.  The row is saved first and the first-time test selects it
\* afterwards (bot.py:222-229).  is_member: what check_channel_membership
\* returns when a channel is set; unreachable: the chats a send to which raises.
start(u, is_member, unreachable) ==
    LET saved == save_user(u)
        existing == {v \in saved : v = u}
        sent == IF existing = {} THEN notify_admins_new_user(unreachable)
                ELSE [notified |-> {}, failed |-> {}]
        channel == IF bot_settings = <<>> THEN None ELSE bot_settings[1].force_channel
    IN  /\ channel = None => is_member
        /\ existing # {} => unreachable = {}
        /\ users' = saved
        /\ last' = [Did("start", u, 0, IF channel # None /\ ~is_member
                                       THEN "AccessDenied" ELSE "MainMenu")
                    EXCEPT !.notified = sent.notified, !.failed = sent.failed]
        /\ UNCHANGED <<store, convs, user_data, buttons, tasks, redeemed, vt>>

generate_key_callback(u) ==
    /\ convs["conv_handler"][u] = END
    /\ convs' = SetConv("conv_handler", u, WAITING_TOKEN)
    /\ last' = Did("generate_key_callback", u, 0, "AskToken")
    /\ UNCHANGED <<store, user_data, buttons, tasks, redeemed, vt, users>>

receive_token(u, token_id, fail) ==
    /\ TextTarget(u) = "conv_handler"
    /\ convs["conv_handler"][u] = WAITING_TOKEN
    /\ LET r == generate_key(token_id, u, fail)
       IN  /\ Len(r.keys) <= MaxKeys
           /\ keys' = r.keys
           /\ tokens' = r.tokens
           /\ redeemed' = IF r.key # 0 THEN redeemed \cup {token_id} ELSE redeemed
           /\ IF r.raised
              THEN \* the exception leaves the handler: the conversation keeps its state
                   /\ last' = Did("receive_token", u, token_id, "Raised")
                   /\ UNCHANGED convs
              ELSE /\ last' = [Did("receive_token", u, token_id,
                                   IF r.key # 0 THEN "KeyGenerated" ELSE "InvalidToken")
                               EXCEPT !.key = r.key]
                   /\ convs' = SetConv("conv_handler", u, END)
    /\ UNCHANGED <<packages, upi_config, pending_transactions, admins, bot_settings,
                   user_data, buttons, tasks, vt, users>>

\* ---- receive_token one store call at a time.  generate_key makes three
\* requests (select, keys insert, tokens update); a second attempt may be
\* served between two of them, and a request may raise.  tasks is the bag of
\* the calls in flight: what each holds in its locals and the write it makes next.
Task(pc, u, token_id, package_id, validity, key) ==
    [pc |-> pc, user |-> u, token_id |-> token_id, package_id |-> package_id,
     validity |-> validity, key |-> key]

\* the select and the package lookup
gk_begin(u, token_id) ==
    /\ TextTarget(u) = "conv_handler"
    /\ convs["conv_handler"][u] = WAITING_TOKEN
    /\ LET data == gk_select(tokens, token_id, u)
           package == IF data = <<>> THEN <<>>
                      ELSE get_package_by_id(tokens[data[1]].package_id)
       IN  IF data = <<>> \/ package = <<>>
           THEN /\ last' = Did("receive_token", u, token_id, "InvalidToken")
                /\ convs' = SetConv("conv_handler", u, END)
                /\ UNCHANGED tasks
           ELSE /\ BagCardinality(tasks) < MaxTasks
                /\ tasks' = tasks (+) SetToBag({Task("insert_key", u, token_id,
                                tokens[data[1]].package_id, package[1].validity, 0)})
                /\ UNCHANGED <<convs, last>>
    /\ UNCHANGED <<store, user_data, buttons, redeemed, vt, users>>

\* keys.insert(key_data)
gk_insert_key(task) ==
    /\ task.pc = "insert_key"
    /\ Len(keys) < MaxKeys
    /\ keys' = Append(keys, NewKey(keys, task.user, task.package_id, task.token_id,
                                   task.validity))
    /\ tasks' = (tasks (-) SetToBag({task}))
                (+) SetToBag({[task EXCEPT !.pc = "update_token", !.key = Len(keys) + 1]})
    /\ UNCHANGED <<tokens, packages, upi_config, pending_transactions, admins,
                   bot_settings, convs, user_data, buttons, redeemed, last, vt, users>>

\* tokens.update(used), then the handler sends the key and ends the conversation
gk_update_token(task) ==
    /\ task.pc = "update_token"
    /\ tokens' = MarkUsed(tokens, task.token_id)
    /\ tasks' = tasks (-) SetToBag({task})
    /\ redeemed' = redeemed \cup {task.token_id}
    /\ convs' = SetConv("conv_handler", task.user, END)
    /\ last' = [Did("receive_token", task.user, task.token_id, "KeyGenerated")
                EXCEPT !.key = task.key]
    /\ UNCHANGED <<keys, packages, upi_config, pending_transactions, admins,
                   bot_settings, user_data, buttons, vt, users>>

\* the pending request raises: the handler ends there
gk_raise(task) ==
    /\ tasks' = tasks (-) SetToBag({task})
    /\ last' = Did("receive_token", task.user, task.token_id, "Raised")
    /\ UNCHANGED <<store, convs, user_data, buttons, redeemed, vt, users>>

\* a conversation that takes its entry points in every state
entry_open_reentry(c, u) == TRUE

\* ConversationHandler looks at its entry points only for a user it holds no
\* state for (allow_reentry is left off, bot.py:581)
entry_open(c, u) == convs[c][u] = END

select_package_callback(u, package_id) ==
    /\ entry_open("conv_handler", u)
    /\ IF get_package_by_id(package_id) = <<>>
       THEN /\ last' = Did("select_package_callback", u, package_id, "PackageNotFound")
            /\ UNCHANGED <<convs, user_data>>
       ELSE /\ user_data' = [user_data EXCEPT ![u].selected_package_id = package_id]
            /\ IF get_upi_details = {}
               THEN /\ last' = Did("select_package_callback", u, package_id,
                                   "PaymentNotConfigured")
                    /\ UNCHANGED convs
               ELSE /\ last' = Did("select_package_callback", u, package_id, "PaymentPrompt")
                    /\ convs' = SetConv("conv_handler", u, WAITING_PAYMENT_PROOF)
    /\ UNCHANGED <<store, buttons, tasks, redeemed, vt, users>>

\* bot.py:475  if result['status'] == 'SUCCESS'
verified_unless_error(status) == status # "ERROR"

\* a test that takes every verdict for SUCCESS
verified_always(status) == TRUE

verified(status) == status = "SUCCESS"

\* The SUCCESS branch writes three times: token insert (save_token), key
\* insert, token update.  fail names the write that raises (0: none); the writes
\* before it stay.
handle_transaction_id_submission(u, package_id, txn_id, resp, fail) ==
    LET package == get_package_by_id(package_id)[1]
        status == verify_transaction(bot_settings, resp, package.amount)
        token_id == Len(tokens) + 1
        saved == save_token(u, package_id, txn_id)
        inserted == Append(keys, NewKey(keys, u, package_id, token_id, package.validity))
    IN  IF verified(status)
        THEN /\ Len(tokens) < MaxTokens
             /\ Len(keys) < MaxKeys
             /\ tokens' = CASE fail = 1 -> tokens
                            [] fail \in {2, 3} -> saved
                            [] OTHER -> MarkUsed(saved, token_id)
             /\ keys' = IF fail \in {1, 2} THEN keys ELSE inserted
             /\ last' = [Did("handle_transaction_id_submission", u, package_id,
                             IF fail # 0 THEN "Raised" ELSE "PaymentVerified")
                         EXCEPT !.key = IF fail # 0 THEN 0 ELSE Len(keys) + 1,
                                !.verdict = status, !.ref = txn_id]
        ELSE /\ fail = 0
             /\ last' = [Did("handle_transaction_id_submission", u, package_id,
                             "VerificationFailed")
                         EXCEPT !.verdict = status, !.ref = txn_id]
             /\ UNCHANGED <<tokens, keys>>

\* a loop that a failed send ends: nobody is notified once one send raised
notify_admins_abort(unreachable) ==
    IF get_all_admins \cap unreachable = {}
    THEN [notified |-> get_all_admins, failed |-> {}]
    ELSE [notified |-> {}, failed |-> get_all_admins \cap unreachable]

\* The notification loop (bot.py:537-561): one send_photo per id of
\* get_all_admins, each in its own try/except that logs the failure.
notify_admins(unreachable) ==
    [notified |-> get_all_admins \ unreachable,
     failed |-> get_all_admins \cap unreachable]

handle_screenshot_submission_approved(u, package_id, unreachable) ==
    /\ Len(pending_transactions) < MaxReviews
    /\ pending_transactions' = Append(pending_transactions,
            [id |-> Len(pending_transactions) + 1, user_id |-> u,
             package_id |-> package_id, status |-> "approved", reviewed_by |-> 0,
             reviewed_at |-> FALSE])
    /\ last' = [Did("handle_screenshot_submission", u, package_id, "ScreenshotReceived")
                EXCEPT !.notified = notify_admins(unreachable).notified,
                       !.failed = notify_admins(unreachable).failed]

\* Writes one pending_transactions row, replies to the buyer, then runs the
\* notification loop, whose buttons carry approve_<user_id>_<package_id>_<file_id>.
\* unreachable: the chats a send_photo to which raises.
handle_screenshot_submission(u, package_id, unreachable) ==
    /\ Len(pending_transactions) < MaxReviews
    /\ pending_transactions' = Append(pending_transactions,
            [id |-> Len(pending_transactions) + 1, user_id |-> u,
             package_id |-> package_id, status |-> "pending", reviewed_by |-> 0,
             reviewed_at |-> FALSE])
    /\ last' = [Did("handle_screenshot_submission", u, package_id, "ScreenshotReceived")
                EXCEPT !.notified = notify_admins(unreachable).notified,
                       !.failed = notify_admins(unreachable).failed]

\* a handler that stays in WAITING_PAYMENT_PROOF after a failed verification
after_proof_retry(u, reply) ==
    IF reply \in {"Raised", "VerificationFailed"} THEN convs
    ELSE SetConv("conv_handler", u, END)

\* The conversation after receive_payment_proof: every return is END
\* (bot.py:448, 466); an exception leaves the state as it was.
after_proof(u, reply) ==
    IF reply = "Raised" THEN convs ELSE SetConv("conv_handler", u, END)

\* kind: "photo" (update.message.photo) or "text"; txn_id, resp and fail are
\* read on the text branch only, unreachable on the photo branch only
receive_payment_proof(u, kind, txn_id, resp, fail, unreachable) ==
    /\ convs["conv_handler"][u] = WAITING_PAYMENT_PROOF
    /\ LET package_id == user_data[u].selected_package_id
       IN  IF package_id = 0
           THEN /\ last' = Did("receive_payment_proof", u, 0, "PackageNotFound")
                /\ UNCHANGED <<tokens, keys, pending_transactions>>
           ELSE IF kind = "photo"
           THEN /\ handle_screenshot_submission(u, package_id, unreachable)
                /\ UNCHANGED <<tokens, keys>>
           ELSE /\ handle_transaction_id_submission(u, package_id, txn_id, resp, fail)
                /\ UNCHANGED pending_transactions
    /\ convs' = after_proof(u, last'.reply)
    /\ UNCHANGED <<packages, upi_config, admins, bot_settings, user_data, buttons, tasks, redeemed, vt, users>>

cancel(u) ==
    /\ convs["conv_handler"][u] # END
    /\ convs' = SetConv("conv_handler", u, END)
    /\ last' = Did("cancel", u, 0, "Cancelled")
    /\ UNCHANGED <<store, user_data, buttons, tasks, redeemed, vt, users>>

\* ------------------------------------------------------------- review queue
\* The review ids that delivered approve/reject buttons carry.  admin_view_pending
\* sends approve_<id> for every row that is pending when an admin looks, and the
\* notification of a submission sends approve_<user_id>_...; a sent button stays
\* in the chat, so every row's id and every submitter's user id can come back.
\* int(query.data.split('_')[1]) of the buttons sent with the notification of
\* review r, whose callback_data is approve_<user_id>_<package_id>_<file_id>
NotificationKey(r) == pending_transactions[r].user_id

ReviewButtons ==
    Rows(pending_transactions)
    \cup {pending_transactions[i].user_id : i \in Rows(pending_transactions)}

admin_view_pending(u) ==
    /\ LET pend == {i \in Rows(pending_transactions) :
                        pending_transactions[i].status = "pending"}
       IN  IF ~is_admin(u)
           THEN last' = Did("admin_view_pending", u, 0, "Unauthorized")
           ELSE IF pend = {}
           THEN last' = Did("admin_view_pending", u, 0, "NoPending")
           ELSE last' = Did("admin_view_pending", u, Cardinality(pend), "PendingList")
    /\ UNCHANGED <<store, convs, user_data, buttons, tasks, redeemed, vt, users>>

Resolve_no_reviewer(review_id, status, admin_id) ==
    [pending_transactions EXCEPT ![review_id].status = status]

\* the update of a review row by approve and reject; reviewed_at tells whether
\* the row carries a review time
Resolve(review_id, status, admin_id) ==
    [pending_transactions EXCEPT ![review_id].status = status,
                                 ![review_id].reviewed_at = TRUE,
                                 ![review_id].reviewed_by = admin_id]

\* review_id: int(query.data.split('_')[1]) of a delivered button.
\* The handler writes four times: token insert, key insert, token update,
\* review update; fail names the write that raises (0: none).
admin_approve_screenshot(u, review_id, fail) ==
    /\ review_id \in ReviewButtons
    /\ IF ~is_admin(u)
       THEN /\ fail = 0
            /\ last' = Did("admin_approve_screenshot", u, review_id, "Unauthorized")
            /\ UNCHANGED <<tokens, keys, pending_transactions>>
       ELSE IF review_id \notin Rows(pending_transactions)
       THEN \* .data[0] of an empty result raises; nothing was written yet
            /\ fail = 0
            /\ last' = Did("admin_approve_screenshot", u, review_id, "Raised")
            /\ UNCHANGED <<tokens, keys, pending_transactions>>
       ELSE LET transaction == pending_transactions[review_id]
                package == get_package_by_id(transaction.package_id)[1]
                token_id == Len(tokens) + 1
                saved == Append(tokens, NewToken(transaction.user_id,
                                    transaction.package_id, SSRef(review_id)))
                inserted == Append(keys, NewKey(keys, transaction.user_id,
                                    transaction.package_id, token_id, package.validity))
            IN  /\ Len(tokens) < MaxTokens
                /\ Len(keys) < MaxKeys
                /\ tokens' = CASE fail = 1 -> tokens
                               [] fail \in {2, 3} -> saved
                               [] OTHER -> MarkUsed(saved, token_id)
                /\ keys' = IF fail \in {1, 2} THEN keys ELSE inserted
                /\ pending_transactions' = IF fail # 0 THEN pending_transactions
                                           ELSE Resolve(review_id, "approved", u)
                /\ last' = IF fail # 0
                           THEN Did("admin_approve_screenshot", u, review_id, "Raised")
                           ELSE [Did("admin_approve_screenshot", u, review_id, "Approved")
                                 EXCEPT !.key = Len(keys) + 1]
    /\ UNCHANGED <<packages, upi_config, admins, bot_settings, convs, user_data,
                   buttons, tasks, redeemed, vt, users>>

admin_reject_screenshot(u, review_id) ==
    /\ review_id \in ReviewButtons
    /\ IF ~is_admin(u)
       THEN /\ last' = Did("admin_reject_screenshot", u, review_id, "Unauthorized")
            /\ UNCHANGED pending_transactions
       ELSE IF review_id \notin Rows(pending_transactions)
       THEN /\ last' = Did("admin_reject_screenshot", u, review_id, "Raised")
            /\ UNCHANGED pending_transactions
       ELSE /\ pending_transactions' = Resolve(review_id, "rejected", u)
            /\ last' = Did("admin_reject_screenshot", u, review_id, "Rejected")
    /\ UNCHANGED <<tokens, keys, packages, upi_config, admins, bot_settings, convs,
                   user_data, buttons, tasks, redeemed, vt, users>>

\* ------------------------------------------------- manual token issuance
admin_generate_token_callback(u) ==
    /\ convs["token_conv"][u] = END
    /\ IF ~is_admin(u)
       THEN /\ last' = Did("admin_generate_token_callback", u, 0, "Unauthorized")
            /\ UNCHANGED convs
       ELSE /\ last' = Did("admin_generate_token_callback", u, 0, "AskUsername")
            /\ convs' = SetConv("token_conv", u, ADMIN_WAITING_USERNAME)
    /\ UNCHANGED <<store, user_data, buttons, tasks, redeemed, vt, users>>

admin_receive_username(u) ==
    /\ TextTarget(u) = "token_conv"
    /\ convs["token_conv"][u] = ADMIN_WAITING_USERNAME
    /\ IF {i \in Rows(packages) : packages[i].is_active} = {}
       THEN /\ last' = Did("admin_receive_username", u, 0, "NoPackages")
            /\ convs' = SetConv("token_conv", u, END)
            /\ UNCHANGED buttons
       ELSE /\ last' = Did("admin_receive_username", u, 0, "AskPackage")
            /\ convs' = SetConv("token_conv", u, ADMIN_WAITING_PACKAGE)
            /\ buttons' = buttons \cup {<<u, "package_choice">>}
    /\ UNCHANGED <<store, user_data, tasks, redeemed, vt, users>>

admin_select_package(u, package_id) ==
    /\ convs["token_conv"][u] = ADMIN_WAITING_PACKAGE
    /\ package_id \in Rows(packages)
    /\ user_data' = [user_data EXCEPT ![u].admin_package_id = package_id]
    /\ convs' = SetConv("token_conv", u, ADMIN_WAITING_TXN)
    /\ last' = Did("admin_select_package", u, package_id, "AskTransaction")
    /\ UNCHANGED <<store, buttons, tasks, redeemed, vt, users>>

admin_receive_transaction(u, txn_id, resp) ==
    /\ TextTarget(u) = "token_conv"
    /\ convs["token_conv"][u] = ADMIN_WAITING_TXN
    /\ LET package_id == user_data[u].admin_package_id
           package == get_package_by_id(package_id)[1]
           status == admin_verify_transaction(bot_settings, resp, package.amount)
       IN  IF status = "SUCCESS"
           THEN /\ Len(tokens) < MaxTokens
                /\ tokens' = Append(tokens, NewToken(Unclaimed, package_id, txn_id))
                /\ last' = [Did("admin_receive_transaction", u, Len(tokens) + 1,
                                "TokenGenerated")
                            EXCEPT !.verdict = status, !.ref = txn_id]
           ELSE /\ last' = [Did("admin_receive_transaction", u, 0, "VerificationFailed")
                            EXCEPT !.verdict = status, !.ref = txn_id]
                /\ UNCHANGED tokens
    /\ convs' = SetConv("token_conv", u, END)
    /\ UNCHANGED <<keys, packages, upi_config, pending_transactions, admins,
                   bot_settings, user_data, buttons, tasks, redeemed, vt, users>>

\* ------------------------------------------------------------ add package
\* text typed as an amount or a validity
AmountTexts == {r \in RawAmounts : r.kind = "bad" \/ (r.kind = "str" /\ r.frac = 0)}
ValidityTexts == {[kind |-> "int", v |-> n] : n \in Validities} \cup {[kind |-> "bad", v |-> 0]}

\* int(text) that takes any text for a number
int_lenient(text) == [ok |-> TRUE, v |-> text.v]

\* int(text)
int(text) == [ok |-> text.kind = "int", v |-> text.v]

admin_add_package_start(u) ==
    /\ convs["pkg_conv"][u] = END
    /\ \E role \in get_admin_role(u) :
         IF ~is_super_admin(role)
         THEN /\ last' = Did("admin_add_package_start", u, 0, "Unauthorized")
              /\ UNCHANGED convs
         ELSE /\ last' = Did("admin_add_package_start", u, 0, "AskName")
              /\ convs' = SetConv("pkg_conv", u, ADMIN_ADD_PKG_NAME)
    /\ UNCHANGED <<store, user_data, buttons, tasks, redeemed, vt, users>>

admin_add_package_name(u) ==
    /\ TextTarget(u) = "pkg_conv"
    /\ convs["pkg_conv"][u] = ADMIN_ADD_PKG_NAME
    /\ convs' = SetConv("pkg_conv", u, ADMIN_ADD_PKG_DESC)
    /\ last' = Did("admin_add_package_name", u, 0, "AskDescription")
    /\ UNCHANGED <<store, user_data, buttons, tasks, redeemed, vt, users>>

admin_add_package_desc(u) ==
    /\ TextTarget(u) = "pkg_conv"
    /\ convs["pkg_conv"][u] = ADMIN_ADD_PKG_DESC
    /\ convs' = SetConv("pkg_conv", u, ADMIN_ADD_PKG_AMOUNT)
    /\ last' = Did("admin_add_package_desc", u, 0, "AskAmount")
    /\ UNCHANGED <<store, user_data, buttons, tasks, redeemed, vt, users>>

admin_add_package_amount(u, text) ==
    /\ TextTarget(u) = "pkg_conv"
    /\ convs["pkg_conv"][u] = ADMIN_ADD_PKG_AMOUNT
    /\ IF float(text).ok
       THEN /\ user_data' = [user_data EXCEPT ![u].pkg_amount = float(text).v]
            /\ convs' = SetConv("pkg_conv", u, ADMIN_ADD_PKG_VALIDITY)
            /\ last' = Did("admin_add_package_amount", u, 0, "AskValidity")
       ELSE /\ last' = Did("admin_add_package_amount", u, 0, "InvalidAmount")
            /\ UNCHANGED <<convs, user_data>>
    /\ UNCHANGED <<store, buttons, tasks, redeemed, vt, users>>

InsertPackage(amount, validity) ==
    Append(packages, [id |-> Len(packages) + 1, amount |-> amount,
                      validity |-> validity, is_active |-> TRUE])

admin_add_package_validity(u, text) ==
    /\ TextTarget(u) = "pkg_conv"
    /\ convs["pkg_conv"][u] = ADMIN_ADD_PKG_VALIDITY
    /\ IF int(text).ok
       THEN /\ Len(packages) < MaxPackages
            /\ packages' = InsertPackage(user_data[u].pkg_amount, int(text).v)
            /\ convs' = SetConv("pkg_conv", u, END)
            /\ last' = Did("admin_add_package_validity", u, Len(packages) + 1,
                           "PackageAdded")
       ELSE /\ last' = Did("admin_add_package_validity", u, 0, "InvalidValidity")
            /\ UNCHANGED <<convs, packages>>
    /\ UNCHANGED <<tokens, keys, upi_config, pending_transactions, admins, bot_settings,
                   user_data, buttons, tasks, redeemed, vt, users>>

\* ---------------------------------------------------------------- add UPI
admin_add_upi_start(u) ==
    /\ convs["upi_conv"][u] = END
    /\ \E role \in get_admin_role(u) :
         IF ~is_super_admin(role)
         THEN /\ last' = Did("admin_add_upi_start", u, 0, "Unauthorized")
              /\ UNCHANGED convs
         ELSE /\ last' = Did("admin_add_upi_start", u, 0, "AskUpiId")
              /\ convs' = SetConv("upi_conv", u, ADMIN_ADD_UPI_ID)
    /\ UNCHANGED <<store, user_data, buttons, tasks, redeemed, vt, users>>

admin_add_upi_id(u) ==
    /\ TextTarget(u) = "upi_conv"
    /\ convs["upi_conv"][u] = ADMIN_ADD_UPI_ID
    /\ convs' = SetConv("upi_conv", u, ADMIN_ADD_UPI_NAME)
    /\ last' = Did("admin_add_upi_id", u, 0, "AskUpiName")
    /\ UNCHANGED <<store, user_data, buttons, tasks, redeemed, vt, users>>

\* the deactivating update matching no row, and sparing row 1
DeactivateNone(upis) == upis

DeactivateAll_neq_1(upis) ==
    [i \in Rows(upis) |-> IF upis[i].id # 1 THEN [upis[i] EXCEPT !.is_active = FALSE]
                          ELSE upis[i]]

\* upi_config.update({'is_active': False}).neq('id', 0)
DeactivateAll(upis) ==
    [i \in Rows(upis) |-> IF upis[i].id # 0 THEN [upis[i] EXCEPT !.is_active = FALSE]
                          ELSE upis[i]]

InsertUpi(upis) == Append(upis, [id |-> Len(upis) + 1, is_active |-> TRUE])

\* Two writes: the update that deactivates, then the insert.  fail names the
\* write that raises (0: none); an exception leaves the conversation in its state.
admin_add_upi_name(u, fail) ==
    /\ TextTarget(u) = "upi_conv"
    /\ convs["upi_conv"][u] = ADMIN_ADD_UPI_NAME
    /\ Len(upi_config) < MaxUpi
    /\ upi_config' = CASE fail = 1 -> upi_config
                       [] fail = 2 -> DeactivateAll(upi_config)
                       [] OTHER -> InsertUpi(DeactivateAll(upi_config))
    /\ convs' = IF fail # 0 THEN convs ELSE SetConv("upi_conv", u, END)
    /\ last' = IF fail # 0 THEN Did("admin_add_upi_name", u, 0, "Raised")
               ELSE Did("admin_add_upi_name", u, Len(upi_config) + 1, "UpiAdded")
    /\ UNCHANGED <<tokens, keys, packages, pending_transactions, admins, bot_settings,
                   user_data, buttons, tasks, redeemed, vt, users>>

\* -------------------------------------------------------------- add admin
\* text typed as a Telegram user id
AdminIdTexts == {[kind |-> "int", v |-> n] : n \in Users} \cup {[kind |-> "bad", v |-> 0]}
\* the id of user 2, or no number
SomeAdminIdTexts == {t \in AdminIdTexts : t.v \in {0, 2}}

admin_add_admin_start(u) ==
    /\ convs["admin_conv"][u] = END
    /\ \E role \in get_admin_role(u) :
         IF ~is_super_admin(role)
         THEN /\ last' = Did("admin_add_admin_start", u, 0, "Unauthorized")
              /\ UNCHANGED convs
         ELSE /\ last' = Did("admin_add_admin_start", u, 0, "AskAdminId")
              /\ convs' = SetConv("admin_conv", u, ADMIN_ADD_ADMIN_ID)
    /\ UNCHANGED <<store, user_data, buttons, tasks, redeemed, vt, users>>

admin_add_admin_id(u, text) ==
    /\ TextTarget(u) = "admin_conv"
    /\ convs["admin_conv"][u] = ADMIN_ADD_ADMIN_ID
    /\ IF int(text).ok
       THEN /\ user_data' = [user_data EXCEPT ![u].new_admin_id = int(text).v]
            /\ convs' = SetConv("admin_conv", u, ADMIN_ADD_ADMIN_ROLE)
            /\ last' = Did("admin_add_admin_id", u, 0, "AskRole")
       ELSE /\ last' = Did("admin_add_admin_id", u, 0, "InvalidUserId")
            /\ UNCHANGED <<convs, user_data>>
    /\ UNCHANGED <<store, buttons, tasks, redeemed, vt, users>>

admin_add_admin_role(u, role) ==
    /\ convs["admin_conv"][u] = ADMIN_ADD_ADMIN_ROLE
    /\ Len(admins) < MaxAdmins
    /\ admins' = Append(admins, [telegram_id |-> user_data[u].new_admin_id,
                                 role |-> role, is_active |-> TRUE])
    /\ convs' = SetConv("admin_conv", u, END)
    /\ last' = Did("admin_add_admin_role", u, user_data[u].new_admin_id, "AdminAdded")
    /\ UNCHANGED <<tokens, keys, packages, upi_config, pending_transactions, bot_settings,
                   user_data, buttons, tasks, redeemed, vt, users>>

\* ----------------------------------------------------------- bot settings
ChannelTexts == {"-100123", "@chan", "chan"}
ApiTokenTexts == {"tokA", "tokB"}

\* the value admin_edit_channel_save stores for a text
channel_value(text) == IF text = "chan" THEN "@chan" ELSE text

\* a save that inserts a row whether or not one exists
upsert_setting_insert(field, value) ==
    Append(bot_settings, [[id |-> Len(bot_settings) + 1, force_channel |-> None,
                           api_token |-> None] EXCEPT ![field] = value])

\* select('*').limit(1), then update of that row's field, or insert of a row
\* that has only that field (admin_commands.py:794-799, 834-839)
upsert_setting(field, value) ==
    IF bot_settings # <<>>
    THEN [bot_settings EXCEPT ![1] = [@ EXCEPT ![field] = value]]
    ELSE <<[[id |-> 1, force_channel |-> None, api_token |-> None]
            EXCEPT ![field] = value]>>

admin_edit_channel_start(u) ==
    /\ convs["channel_conv"][u] = END
    /\ \E role \in get_admin_role(u) :
         IF ~is_super_admin(role)
         THEN /\ last' = Did("admin_edit_channel_start", u, 0, "Unauthorized")
              /\ UNCHANGED convs
         ELSE /\ last' = Did("admin_edit_channel_start", u, 0, "AskChannel")
              /\ convs' = SetConv("channel_conv", u, ADMIN_EDIT_CHANNEL)
    /\ UNCHANGED <<store, user_data, buttons, tasks, redeemed, vt, users>>

admin_edit_channel_save(u, text) ==
    /\ TextTarget(u) = "channel_conv"
    /\ convs["channel_conv"][u] = ADMIN_EDIT_CHANNEL
    /\ bot_settings' = upsert_setting("force_channel", channel_value(text))
    /\ convs' = SetConv("channel_conv", u, END)
    /\ last' = Did("admin_edit_channel_save", u, 0, "ChannelUpdated")
    /\ UNCHANGED <<tokens, keys, packages, upi_config, pending_transactions, admins,
                   user_data, buttons, tasks, redeemed, vt, users>>

admin_edit_api_start(u) ==
    /\ convs["api_conv"][u] = END
    /\ \E role \in get_admin_role(u) :
         IF ~is_super_admin(role)
         THEN /\ last' = Did("admin_edit_api_start", u, 0, "Unauthorized")
              /\ UNCHANGED convs
         ELSE /\ last' = Did("admin_edit_api_start", u, 0, "AskApiToken")
              /\ convs' = SetConv("api_conv", u, ADMIN_EDIT_API)
    /\ UNCHANGED <<store, user_data, buttons, tasks, redeemed, vt, users>>

admin_edit_api_save(u, text) ==
    /\ TextTarget(u) = "api_conv"
    /\ convs["api_conv"][u] = ADMIN_EDIT_API
    /\ bot_settings' = upsert_setting("api_token", text)
    /\ convs' = SetConv("api_conv", u, END)
    /\ last' = Did("admin_edit_api_save", u, 0, "ApiTokenUpdated")
    /\ UNCHANGED <<tokens, keys, packages, upi_config, pending_transactions, admins,
                   user_data, buttons, tasks, redeemed, vt, users>>

\* admin_cancel: the fallback of every admin conversation; the callback goes to
\* the first conversation, in registration order, that holds a state for the user
admin_cancel(u) ==
    /\ Holds(u, "admin_cancel")
    /\ LET open == {i \in 2..Len(ConvOrder) : convs[ConvOrder[i]][u] # END}
       IN  /\ open # {}
           /\ convs' = SetConv(ConvOrder[CHOOSE i \in open : \A j \in open : i <= j], u, END)
    /\ last' = Did("admin_cancel", u, 0, "Cancelled")
    /\ UNCHANGED <<store, user_data, buttons, tasks, redeemed, vt, users>>

\* ------------------------------------------------- admin panel and menus
\* a handler's answer with a keyboard, and without one
Show(op, u, reply, kb) ==
    /\ last' = Did(op, u, 0, reply)
    /\ buttons' = buttons \cup {<<u, kb>>}

Answer(op, u, reply) ==
    /\ last' = Did(op, u, 0, reply)
    /\ UNCHANGED buttons

\* /admin
admin_panel(u) ==
    /\ IF ~is_admin(u) THEN Answer("admin_panel", u, "Unauthorized")
       ELSE \E role \in get_admin_role(u) :
                IF role = "limited" THEN Show("admin_panel", u, "LimitedPanel", "limited_panel")
                ELSE Show("admin_panel", u, "SuperPanel", "super_panel")
    /\ UNCHANGED <<store, convs, user_data, tasks, redeemed, vt, users>>

\* the four menus: each tests is_super_admin
admin_menu(op, data, u, reply, kb) ==
    /\ Holds(u, data)
    /\ \E role \in get_admin_role(u) :
            IF ~is_super_admin(role) THEN Answer(op, u, "Unauthorized")
            ELSE Show(op, u, reply, kb)
    /\ UNCHANGED <<store, convs, user_data, tasks, redeemed, vt, users>>

admin_packages_menu(u) ==
    admin_menu("admin_packages_menu", "admin_packages", u, "PackagesMenu", "packages_menu")

admin_upi_menu(u) == admin_menu("admin_upi_menu", "admin_upi", u, "UpiMenu", "upi_menu")

admin_admins_menu(u) ==
    admin_menu("admin_admins_menu", "admin_admins", u, "AdminsMenu", "admins_menu")

admin_settings_menu(u) ==
    admin_menu("admin_settings_menu", "admin_settings", u, "SettingsMenu", "settings_menu")

\* the four listings: each reads its table and shows it, with no test of the user
admin_listing(op, data, u, table, reply, kb) ==
    /\ Holds(u, data)
    /\ IF table = <<>> THEN Answer(op, u, "NoneFound") ELSE Show(op, u, reply, kb)
    /\ UNCHANGED <<store, convs, user_data, tasks, redeemed, vt, users>>

admin_view_packages(u) ==
    admin_listing("admin_view_packages", "admin_view_packages", u, packages,
                  "PackageList", "packages_list")

admin_view_upi(u) ==
    admin_listing("admin_view_upi", "admin_view_upi", u, upi_config, "UpiList", "upi_list")

admin_view_admins(u) ==
    admin_listing("admin_view_admins", "admin_view_admins", u, admins,
                  "AdminList", "admins_list")

\* shows force_channel and api_token of the settings row
admin_view_settings(u) ==
    admin_listing("admin_view_settings", "admin_view_settings", u, bot_settings,
                  "SettingsShown", "settings_view")

admin_stats(u) ==
    /\ Holds(u, "admin_stats")
    /\ Show("admin_stats", u, "Stats", "stats")
    /\ UNCHANGED <<store, convs, user_data, tasks, redeemed, vt, users>>

\* Back: the limited panel for role limited, the super panel for every other
\* answer of get_admin_role, None included
admin_back(u) ==
    /\ Holds(u, "admin_back")
    /\ \E role \in get_admin_role(u) :
            IF role = "limited" THEN Show("admin_back", u, "LimitedPanel", "limited_panel")
            ELSE Show("admin_back", u, "SuperPanel", "super_panel")
    /\ UNCHANGED <<store, convs, user_data, tasks, redeemed, vt, users>>

\* ------------------------------------------------------------------- Init

\* The admins table is seeded outside the bot (no handler can add the first
\* admin): one super admin and one limited admin.  All else is empty.
InitAdmins == <<[telegram_id |-> 1, role |-> "super", is_active |-> TRUE],
                [telegram_id |-> 2, role |-> "limited", is_active |-> TRUE]>>

InitSession ==
    /\ convs = [c \in ConvNames |-> [u \in Users |-> END]]
    /\ user_data = [u \in Users |-> [selected_package_id |-> 0, admin_package_id |-> 0,
                                     pkg_amount |-> 0, new_admin_id |-> 0]]
    /\ buttons = {}
    /\ tasks = EmptyBag
    /\ redeemed = {}
    /\ last = Did(None, 0, 0, None)
    /\ vt = NoCall

Init ==
    /\ tokens = <<>>
    /\ keys = <<>>
    /\ packages = <<>>
    /\ upi_config = <<>>
    /\ pending_transactions = <<>>
    /\ admins = InitAdmins
    /\ bot_settings = <<>>
    /\ users = {}
    /\ InitSession

\* A store an installation reaches from Init through the admin flows (one
\* package, one UPI route, the API token saved or not yet).
ConfiguredStore(settings) ==
    /\ tokens = <<>>
    /\ keys = <<>>
    /\ packages = <<[id |-> 1, amount |-> 10000, validity |-> 30, is_active |-> TRUE]>>
    /\ upi_config = <<[id |-> 1, is_active |-> TRUE]>>
    /\ pending_transactions = <<>>
    /\ admins = InitAdmins
    /\ bot_settings = settings
    /\ users = Users

\* the states of the settings row: never saved, saved without an API token
\* (admin_edit_channel_save on an empty table), saved with one
SettingsRow(api_token) == <<[id |-> 1, force_channel |-> None, api_token |-> api_token]>>
SettingsStates == {<<>>, SettingsRow(None), SettingsRow("tokA")}

InitConfigured == ConfiguredStore(SettingsRow("tokA")) /\ InitSession

\* ----------------------------------------------------------- specifications
\* Updates are handled one at a time (Application.builder() at bot.py:578 leaves
\* concurrent_updates off), so a handler is one step.  Each specification
\* takes the handlers of one part of the bot and bounds who sends what.
Buyers == {2, 3}
\* the reference and the texts sent where one of each is enough
OneTxn == {<<"TXN", 1>>}
\* the responses with a JSON number for an amount or none at all
ProofResponses == {r \in ApiResponses : r.amount.kind \in {"num", "missing"}}
NewAmountTexts == {r \in AmountTexts : r.kind = "bad" \/ r.whole = 200}
NewValidityTexts == {t \in ValidityTexts : t.kind = "bad" \/ t.v = 7}
NoResp == [transport |-> "timeout", status |-> None,
           amount |-> [kind |-> "missing", whole |-> 0, frac |-> 0]]

\* ---- the review queue: user 3 submits screenshots and every user presses
\* the review buttons
ReviewNext ==
    \/ \E package_id \in Rows(packages) : select_package_callback(3, package_id)
    \/ receive_payment_proof(3, "photo", NoTxn, NoResp, 0, {})
    \/ \E u \in Users : admin_view_pending(u)
    \/ \E u \in Users, review_id \in ReviewButtons, fail \in 0..4 :
            admin_approve_screenshot(u, review_id, fail)
    \/ \E u \in Users, review_id \in ReviewButtons : admin_reject_screenshot(u, review_id)

SpecReview == InitConfigured /\ [][ReviewNext]_vars

\* ---- the ledger: every handler that creates keys, and the add-package flow.
\* User 3 buys the newest package and redeems; user 1 approves the reviews of
\* the pending list and adds packages.  Of the store failures, the one that
\* leaves a token to redeem (the keys insert of a verified payment) is taken.
LedgerNext ==
    \/ select_package_callback(3, Len(packages))
    \/ receive_payment_proof(3, "photo", NoTxn, NoResp, 0, {})
    \/ \E txn_id \in OneTxn, resp \in ProofResponses, fail \in {0, 2} :
            receive_payment_proof(3, "text", txn_id, resp, fail, {})
    \/ generate_key_callback(3)
    \/ \E token_id \in 1..MaxTokens : receive_token(3, token_id, 0)
    \/ \E review_id \in Rows(pending_transactions) : admin_approve_screenshot(1, review_id, 0)
    \/ admin_add_package_start(1)
    \/ admin_add_package_name(1)
    \/ admin_add_package_desc(1)
    \/ \E text \in NewAmountTexts : admin_add_package_amount(1, text)
    \/ \E text \in NewValidityTexts : admin_add_package_validity(1, text)

Spec == InitConfigured /\ [][LedgerNext]_vars

\* ---- redemption one store call at a time: user 3 buys, users 2 and 3 redeem
RedeemNext ==
    \/ select_package_callback(3, 1)
    \/ \E txn_id \in OneTxn, resp \in ProofResponses, fail \in 0..3 :
            receive_payment_proof(3, "text", txn_id, resp, fail, {})
    \/ \E u \in Buyers : generate_key_callback(u)
    \/ \E u \in Buyers, token_id \in 1..MaxTokens : gk_begin(u, token_id)
    \/ \E task \in BagToSet(tasks) : gk_insert_key(task)
    \/ \E task \in BagToSet(tasks) : gk_update_token(task)
    \/ \E task \in BagToSet(tasks) : gk_raise(task)
    \/ \E u \in Buyers : cancel(u)

SpecRedeem == InitConfigured /\ [][RedeemNext]_vars

\* ---- the admin flows over UPI routes and the roster by every user, and the
\* entry points of the other super-admin flows as user 2 presses them (a
\* limited admin in the seeded store, whom the roster flow adds again, as
\* super or as limited), from the seeded store
AdminNext ==
    \/ admin_add_package_start(2)
    \/ \E u \in Users : admin_add_upi_start(u)
    \/ \E u \in Users : admin_add_upi_id(u)
    \/ \E u \in Users, fail \in 0..2 : admin_add_upi_name(u, fail)
    \/ \E u \in Users : admin_add_admin_start(u)
    \/ \E u \in Users, text \in SomeAdminIdTexts : admin_add_admin_id(u, text)
    \/ \E u \in Users, role \in Roles : admin_add_admin_role(u, role)
    \/ admin_edit_channel_start(2)
    \/ admin_edit_api_start(2)

SpecAdmin == Init /\ [][AdminNext]_vars

\* ---- manual issuance and redemption: every user presses Generate Token (the
\* admins get through and type a username, pick a package and send a
\* reference), user 3 buys package 1 with a reference (the keys insert may
\* raise and leave the token active), users 2 and 3 redeem.  The API answers
\* SUCCESS with some amount or none, or not at all.
IssueResponses == {r \in ProofResponses : r.status = "SUCCESS" \/ r.transport = "timeout"}

IssueNext ==
    \/ select_package_callback(3, 1)
    \/ \E txn_id \in OneTxn, resp \in IssueResponses, fail \in {0, 2} :
            receive_payment_proof(3, "text", txn_id, resp, fail, {})
    \/ \E u \in Users : admin_generate_token_callback(u)
    \/ \E u \in Users : admin_receive_username(u)
    \/ \E u \in Users, package_id \in Rows(packages) : admin_select_package(u, package_id)
    \/ \E u \in Users, txn_id \in OneTxn, resp \in IssueResponses :
            admin_receive_transaction(u, txn_id, resp)
    \/ \E u \in Buyers : generate_key_callback(u)
    \/ \E u \in Buyers, token_id \in 1..MaxTokens : receive_token(u, token_id, 0)

SpecIssue == InitConfigured /\ [][IssueNext]_vars

\* ---- the gates of the admin operations open to limited admins: every user
\* presses Generate Token, Pending Reviews, and the approve and reject buttons
\* of the reviews user 3 submitted
GateNext ==
    \/ select_package_callback(3, 1)
    \/ receive_payment_proof(3, "photo", NoTxn, NoResp, 0, {})
    \/ \E u \in Users : admin_generate_token_callback(u)
    \/ \E u \in Users : admin_view_pending(u)
    \/ \E u \in Users, review_id \in ReviewButtons : admin_approve_screenshot(u, review_id, 0)
    \/ \E u \in Users, review_id \in ReviewButtons : admin_reject_screenshot(u, review_id)

SpecGate == InitConfigured /\ [][GateNext]_vars

\* ---- payment verification on its own: the function applied to every
\* response, under every state of the settings row
ExpectedAmounts == {w * 100 : w \in Wholes}

InitVerify == (\E settings \in SettingsStates : ConfiguredStore(settings)) /\ InitSession

\* one call of each copy of verify_transaction on the same response
VerifyCall(resp, expected_amount) ==
    /\ vt' = [called |-> TRUE, resp |-> resp, expected_amount |-> expected_amount,
              bot |-> verify_transaction(bot_settings, resp, expected_amount),
              admin |-> admin_verify_transaction(bot_settings, resp, expected_amount)]
    /\ UNCHANGED <<store, convs, user_data, buttons, tasks, redeemed, last, users>>

VerifyNext == \E resp \in ApiResponses, expected_amount \in ExpectedAmounts :
                  VerifyCall(resp, expected_amount)

SpecVerify == InitVerify /\ [][VerifyNext]_vars

\* ---- verification and its caller, under every state of the settings row:
\* user 3 selects package 1 and sends a reference, with every response the API
\* can give; beside it the function is called on the same inputs
ProofNext ==
    \/ select_package_callback(3, 1)
    \/ \E txn_id \in OneTxn, resp \in ApiResponses :
            receive_payment_proof(3, "text", txn_id, resp, 0, {})
    \/ \E resp \in ApiResponses : VerifyCall(resp, packages[1].amount)

SpecProof == InitVerify /\ [][ProofNext]_vars

\* ---- setting up a fresh installation while a buyer is already there: admin 1
\* adds packages and UPI routes (either write of the UPI save may raise), user
\* 3 presses package buttons and sends proofs.  No API token is saved, so a
\* reference never verifies.
SetupNext ==
    \/ admin_add_package_start(1)
    \/ admin_add_package_name(1)
    \/ admin_add_package_desc(1)
    \/ \E text \in NewAmountTexts : admin_add_package_amount(1, text)
    \/ \E text \in NewValidityTexts : admin_add_package_validity(1, text)
    \/ admin_add_upi_start(1)
    \/ admin_add_upi_id(1)
    \/ \E fail \in 0..2 : admin_add_upi_name(1, fail)
    \/ \E package_id \in 1..MaxPackages : select_package_callback(3, package_id)
    \/ receive_payment_proof(3, "photo", NoTxn, NoResp, 0, {})
    \/ \E txn_id \in OneTxn : receive_payment_proof(3, "text", txn_id, NoResp, 0, {})

SpecSetup == Init /\ [][SetupNext]_vars

\* ---- the notification of a screenshot: the roster has admin 2 active or
\* deactivated (no handler deactivates an admin; the row is changed in the
\* database), admin 1 adds admins, user 3 submits a screenshot while any set of
\* chats is unreachable, admin 1 rejects
InitNotify ==
    /\ tokens = <<>>
    /\ keys = <<>>
    /\ packages = <<[id |-> 1, amount |-> 10000, validity |-> 30, is_active |-> TRUE]>>
    /\ upi_config = <<[id |-> 1, is_active |-> TRUE]>>
    /\ pending_transactions = <<>>
    /\ \E b \in BOOLEAN : admins = [InitAdmins EXCEPT ![2].is_active = b]
    /\ bot_settings = SettingsRow("tokA")
    /\ users = Users
    /\ InitSession

NotifyNext ==
    \/ select_package_callback(3, 1)
    \/ \E unreachable \in SUBSET Users :
            receive_payment_proof(3, "photo", NoTxn, NoResp, 0, unreachable)
    \/ \E review_id \in Rows(pending_transactions) : admin_reject_screenshot(1, review_id)
    \/ admin_add_admin_start(1)
    \/ \E text \in SomeAdminIdTexts : admin_add_admin_id(1, text)
    \/ \E role \in Roles : admin_add_admin_role(1, role)

SpecNotify == InitNotify /\ [][NotifyNext]_vars

\* ---- a super admin who loses the role in the middle of a flow.  No handler
\* deactivates or demotes an admin: the row is changed in the database, which
\* the role queries read on every call (admin_commands.py:26, 35).
db_update_admin(i, role, is_active) ==
    /\ i \in Rows(admins)
    /\ admins' = [admins EXCEPT ![i].role = role, ![i].is_active = is_active]
    /\ admins' # admins
    /\ last' = Did("db_update_admin", 0, i, None)
    /\ UNCHANGED <<tokens, keys, packages, upi_config, pending_transactions, bot_settings,
                   convs, user_data, buttons, tasks, redeemed, vt, users>>

\* admin 1 runs the add-package and add-UPI flows while row 1 of admins is
\* demoted, deactivated or restored
DemoteNext ==
    \/ admin_add_package_start(1)
    \/ admin_add_package_name(1)
    \/ admin_add_package_desc(1)
    \/ \E text \in NewAmountTexts : admin_add_package_amount(1, text)
    \/ \E text \in NewValidityTexts : admin_add_package_validity(1, text)
    \/ admin_add_upi_start(1)
    \/ admin_add_upi_id(1)
    \/ admin_add_upi_name(1, 0)
    \/ \E role \in Roles, is_active \in BOOLEAN : db_update_admin(1, role, is_active)

SpecDemote == Init /\ [][DemoteNext]_vars

\* ---- the admin panel: admins 1 and 2 and user 3 send /admin and press what
\* they were shown, while row 1 of admins is demoted, deactivated or restored
PanelNext ==
    \/ \E u \in Users : admin_panel(u)
    \/ \E u \in Users : admin_packages_menu(u)
    \/ \E u \in Users : admin_upi_menu(u)
    \/ \E u \in Users : admin_admins_menu(u)
    \/ \E u \in Users : admin_settings_menu(u)
    \/ \E u \in Users : admin_view_packages(u)
    \/ \E u \in Users : admin_view_upi(u)
    \/ \E u \in Users : admin_view_admins(u)
    \/ \E u \in Users : admin_view_settings(u)
    \/ \E u \in Users : admin_stats(u)
    \/ \E u \in Users : admin_back(u)
    \/ \E role \in Roles, is_active \in BOOLEAN : db_update_admin(1, role, is_active)

SpecPanel == InitConfigured /\ [][PanelNext]_vars

\* ---- the flows that parse what the admin types: add package (amount,
\* validity) and add admin (Telegram id) as super admin 1, from the seeded
\* store, with texts that are numbers and texts that are not
ParseNext ==
    \/ admin_add_package_start(1)
    \/ admin_add_package_name(1)
    \/ admin_add_package_desc(1)
    \/ \E text \in AmountTexts : admin_add_package_amount(1, text)
    \/ \E text \in ValidityTexts : admin_add_package_validity(1, text)
    \/ admin_add_admin_start(1)
    \/ \E text \in AdminIdTexts : admin_add_admin_id(1, text)
    \/ \E role \in Roles : admin_add_admin_role(1, role)

SpecParse == Init /\ [][ParseNext]_vars

\* ---- flows begun and given up: buyer 3 selects, sends a proof or /cancel,
\* and redeems; admin 1 runs manual issuance and presses Cancel on the
\* package keyboard, and resolves the reviews
AbandonNext ==
    \/ select_package_callback(3, 1)
    \/ receive_payment_proof(3, "photo", NoTxn, NoResp, 0, {})
    \/ \E txn_id \in OneTxn, resp \in IssueResponses, fail \in {0, 2} :
            receive_payment_proof(3, "text", txn_id, resp, fail, {})
    \/ cancel(3)
    \/ generate_key_callback(3)
    \/ \E token_id \in 1..MaxTokens : receive_token(3, token_id, 0)
    \/ admin_generate_token_callback(1)
    \/ admin_receive_username(1)
    \/ \E package_id \in Rows(packages) : admin_select_package(1, package_id)
    \/ \E txn_id \in OneTxn, resp \in IssueResponses :
            admin_receive_transaction(1, txn_id, resp)
    \/ admin_cancel(1)
    \/ \E review_id \in ReviewButtons : admin_approve_screenshot(1, review_id, 0)
    \/ \E review_id \in ReviewButtons : admin_reject_screenshot(1, review_id)

SpecAbandon == InitConfigured /\ [][AbandonNext]_vars

\* ---- the settings flows from the empty store: every user presses Edit
\* Channel and Edit API Token (super admin 1 gets through) and types the value
SettingsNext ==
    \/ \E u \in Users : admin_edit_channel_start(u)
    \/ \E u \in Users, text \in ChannelTexts : admin_edit_channel_save(u, text)
    \/ \E u \in Users : admin_edit_api_start(u)
    \/ \E u \in Users, text \in ApiTokenTexts : admin_edit_api_save(u, text)

SpecSettings == Init /\ [][SettingsNext]_vars

\* ---- two buyers side by side over a store with two packages, while super
\* admin 1 saves the API token: each buyer selects, sends a reference or
\* /cancel
InitTwoPackages ==
    /\ tokens = <<>>
    /\ keys = <<>>
    /\ packages = <<[id |-> 1, amount |-> 10000, validity |-> 30, is_active |-> TRUE],
                    [id |-> 2, amount |-> 20000, validity |-> 7, is_active |-> TRUE]>>
    /\ upi_config = <<[id |-> 1, is_active |-> TRUE]>>
    /\ pending_transactions = <<>>
    /\ admins = InitAdmins
    /\ bot_settings \in {SettingsRow(None), SettingsRow("tokA")}
    /\ users = Users
    /\ InitSession

IsolationNext ==
    \/ \E u \in Buyers, package_id \in 1..2 : select_package_callback(u, package_id)
    \/ \E u \in Buyers, txn_id \in OneTxn, resp \in IssueResponses :
            receive_payment_proof(u, "text", txn_id, resp, 0, {})
    \/ \E u \in Buyers : cancel(u)
    \/ admin_edit_api_start(1)
    \/ admin_edit_api_save(1, "tokB")

SpecIsolation == InitTwoPackages /\ [][IsolationNext]_vars

\* ---- one user in two flows at once: super admin 1 buys a package while
\* adding a package and issuing a token by hand; each text goes to one
\* conversation
BothNext ==
    \/ select_package_callback(1, 1)
    \/ \E txn_id \in OneTxn, resp \in IssueResponses :
            receive_payment_proof(1, "text", txn_id, resp, 0, {})
    \/ cancel(1)
    \/ admin_add_package_start(1)
    \/ admin_add_package_name(1)
    \/ admin_add_package_desc(1)
    \/ \E text \in NewAmountTexts : admin_add_package_amount(1, text)
    \/ \E text \in NewValidityTexts : admin_add_package_validity(1, text)
    \/ admin_generate_token_callback(1)
    \/ admin_receive_username(1)
    \/ \E package_id \in Rows(packages) : admin_select_package(1, package_id)
    \/ \E txn_id \in OneTxn, resp \in IssueResponses :
            admin_receive_transaction(1, txn_id, resp)

SpecBoth == InitConfigured /\ [][BothNext]_vars

\* ---- /start from the empty store: every user sends it, member of the
\* channel or not, while super admin 1 sets the channel and row 2 of admins
\* is switched off and on in the database
StartNext ==
    \/ \E u \in Users, is_member \in BOOLEAN, unreachable \in SUBSET {1, 2} :
            start(u, is_member, unreachable)
    \/ admin_edit_channel_start(1)
    \/ \E text \in ChannelTexts : admin_edit_channel_save(1, text)
    \/ \E is_active \in BOOLEAN : db_update_admin(2, "limited", is_active)

SpecStart == Init /\ [][StartNext]_vars

\* ------------------------------------------------------------------ claims
\* the Key rows created from token T
KeysOf(T) == {k \in Rows(keys) : keys[k].token_id = T}

\* C1: for every token T, under any interleaving of redemption attempts, at
\* most one Key row with token_id = T is ever created.
C1_SingleUse == \A T \in 1..MaxTokens : Cardinality(KeysOf(T)) <= 1

\* C2: once generate_key has returned a key for token T, every generate_key
\* call made later for T, by any user, gets no row from its select (so it never
\* reaches a write), returns None, and tokens and keys stay as they were.
C2_Idempotent ==
    [][\A T \in redeemed :
          /\ \A task \in BagToSet(tasks') :
                (task.pc = "insert_key" /\ task.token_id = T)
                    => CopiesIn(task, tasks') <= CopiesIn(task, tasks)
          /\ (last'.op = "receive_token" /\ last'.arg = T /\ tasks' = tasks)
                => (last'.reply = "InvalidToken" /\ UNCHANGED <<tokens, keys>>)
          /\ T \in redeemed']_vars

\* a later attempt on a redeemed token, by the user who does not own it
C2_Witness ==
    /\ last.op = "receive_token"
    /\ last.reply = "InvalidToken"
    /\ last.arg \in redeemed
    /\ last.user = 2

\* C3: once a review is approved or rejected, no approve or reject action
\* changes its status or reviewed_by again.
C3_Terminal ==
    [][\A r \in Rows(pending_transactions) :
          pending_transactions[r].status # "pending"
              => pending_transactions'[r] = pending_transactions[r]]_vars

\* C4: for every review r at most one Token with payment reference SS_<r.id>
\* exists, and at most one Key derived from such a token.
C4_OneMint ==
    \A r \in Rows(pending_transactions) :
        LET minted == {t \in Rows(tokens) : tokens[t].transaction_id = SSRef(r)}
        IN  /\ Cardinality(minted) <= 1
            /\ Cardinality({k \in Rows(keys) : keys[k].token_id \in minted}) <= 1

\* the verdict's amount, coerced, equals the expected amount
AmountMatches == /\ vt.resp.transport = "ok"
                 /\ float(vt.resp.amount).ok
                 /\ float(vt.resp.amount).v = vt.expected_amount

\* C5 as the claim states it: verify_transaction returns SUCCESS if and only if
\* the verdict's amount equals the expected amount after coercion, and every
\* mismatch yields FAILED.
C5_AmountMatchIff ==
    vt.called =>
        /\ (vt.bot = "SUCCESS") <=> AmountMatches
        /\ ~AmountMatches => vt.bot = "FAILED"

\* C5, amended: both copies of verify_transaction return SUCCESS if and only
\* if an API token is configured, the response was received and parsed, its
\* status is SUCCESS and its amount, coerced, equals the expected amount.  A
\* received response is FAILED when its status is SUCCESS and its amount
\* coerces to a different number, and when its status is not SUCCESS whatever
\* its amount.  No API token, a transport or parse failure, and a status
\* SUCCESS with an amount that does not coerce are ERROR.
C5_AmountMatch ==
    vt.called =>
        LET configured == bot_settings # <<>> /\ bot_settings[1].api_token # None
            received == configured /\ vt.resp.transport = "ok"
            accepted == vt.resp.status = "SUCCESS"
            coerced == float(vt.resp.amount).ok
        IN  \A res \in {vt.bot, vt.admin} :
                /\ (res = "SUCCESS") <=> (received /\ accepted /\ AmountMatches)
                /\ (received /\ accepted /\ coerced /\ ~AmountMatches) => res = "FAILED"
                /\ (received /\ ~accepted) => res = "FAILED"
                /\ (~received \/ (accepted /\ ~coerced)) => res = "ERROR"

\* a string amount that coerces to the expected number was accepted
C5_Witness ==
    /\ vt.called
    /\ vt.bot = "SUCCESS"
    /\ vt.resp.amount.kind = "str"
    /\ vt.resp.amount.whole * 100 = vt.expected_amount

\* the entry points of the flows reserved to super admins, and the
\* conversation each one opens
GatedStarts == [admin_add_package_start |-> "pkg_conv", admin_add_upi_start |-> "upi_conv",
                admin_add_admin_start |-> "admin_conv",
                admin_edit_channel_start |-> "channel_conv",
                admin_edit_api_start |-> "api_conv"]

\* C6: when a user whose active admin rows all have role limited presses the
\* entry point of add-package, add-UPI, add-admin, edit-channel or edit-API,
\* the reply is Unauthorized, the conversation is not opened, and the packages,
\* upi_config, admins and bot_settings tables are unchanged.
C6_RoleGating ==
    [][\A u \in Users :
          (get_admin_role(u) = {"limited"} /\ last'.user = u
              /\ last'.op \in DOMAIN GatedStarts)
          => /\ last'.reply = "Unauthorized"
             /\ convs'[GatedStarts[last'.op]][u] = END
             /\ convs' = convs
             /\ UNCHANGED <<packages, upi_config, admins, bot_settings>>]_vars

\* the limited admin was turned away from the API-token flow
C6_Witness ==
    /\ get_admin_role(2) = {"limited"}
    /\ last.user = 2
    /\ last.op = "admin_edit_api_start"
    /\ last.reply = "Unauthorized"

\* C7: every Key row is created with validity_days equal to the validity its
\* package has at that moment, and no step changes an existing Key row's
\* validity_days, whatever is done to packages afterwards.
C7_ValiditySnapshot ==
    [][/\ \A k \in Rows(keys) :
             k \in Rows(keys') /\ keys'[k].validity_days = keys[k].validity_days
       /\ \A k \in Rows(keys') \ Rows(keys) :
             /\ keys'[k].package_id \in Rows(packages)
             /\ keys'[k].validity_days = packages[keys'[k].package_id].validity]_vars

\* keys of both validities exist, the second package was added after the first
\* key was created, and the last key came from a redemption
C7_Witness ==
    /\ Len(packages) = 2
    /\ Len(keys) = 2
    /\ keys[1].validity_days = 30
    /\ keys[2].validity_days = 7
    /\ last.op = "receive_token"
    /\ last.reply = "KeyGenerated"

\* C8: in every reachable state, after any sequence and interleaving of add-UPI
\* flows, at most one upi_config row has is_active = true.
C8_AtMostOneActive == Cardinality(get_upi_details) <= 1

\* two routes were added, by flows of two different admins open at once
C8_Witness ==
    /\ Len(upi_config) = 2
    /\ Cardinality(get_upi_details) = 1
    /\ last.op = "admin_add_upi_name"
    /\ last.reply = "UpiAdded"
    /\ \E u \in Users \ {last.user} : convs["upi_conv"][u] = ADMIN_ADD_UPI_NAME

\* C9: when add-UPI completes for a new route while a route was active,
\* afterwards exactly one route is active, it is the new one, and every route
\* that existed before is inactive.
C9_Activation ==
    [][(last'.op = "admin_add_upi_name" /\ last'.reply = "UpiAdded"
            /\ get_upi_details # {})
       => /\ Len(upi_config') = Len(upi_config) + 1
          /\ {i \in Rows(upi_config') : upi_config'[i].is_active} = {Len(upi_config')}
          /\ \A i \in Rows(upi_config) : ~upi_config'[i].is_active]_vars

\* the second route replaced the first
C9_Witness ==
    /\ last.op = "admin_add_upi_name"
    /\ last.reply = "UpiAdded"
    /\ last.arg = 2
    /\ ~upi_config[1].is_active
    /\ upi_config[2].is_active

C11_FailedVerification ==
    [][(last'.op = "handle_transaction_id_submission"
        /\ last'.verdict \in {"FAILED", "ERROR"})
       => /\ ledger' = ledger
          /\ last'.reply = "VerificationFailed"
          /\ last'.key = 0]_vars

\* a FAILED verdict was reported to buyer 3 while the ledger already holds rows
C11_Witness ==
    /\ last.op = "handle_transaction_id_submission"
    /\ last.verdict = "FAILED"
    /\ last.reply = "VerificationFailed"
    /\ Len(tokens) > 0

\* ------------------------------------------------------------------ C12
\* C12: a photo sent while awaiting proof appends exactly one review row, with
\* status pending, the sender's user id and the package id the sender
\* selected, and leaves every earlier row, every token and every key as they
\* were (bot.py:513-535).
C12_ScreenshotPending ==
    [][last'.op = "handle_screenshot_submission"
       => LET u == last'.user
              n == Len(pending_transactions)
          IN  /\ convs["conv_handler"][u] = WAITING_PAYMENT_PROOF
              /\ Len(pending_transactions') = n + 1
              /\ SubSeq(pending_transactions', 1, n) = pending_transactions
              /\ pending_transactions'[n + 1].status = "pending"
              /\ pending_transactions'[n + 1].user_id = u
              /\ pending_transactions'[n + 1].package_id = user_data[u].selected_package_id
              /\ user_data[u].selected_package_id \in Rows(packages)
              /\ ledger' = ledger]_vars

\* buyer 3's screenshot is queued as pending and nothing was minted for it
C12_Witness ==
    /\ last.op = "handle_screenshot_submission"
    /\ last.user = 3
    /\ pending_transactions # <<>>
    /\ pending_transactions[Len(pending_transactions)].status = "pending"
    /\ tokens = <<>>
    /\ keys = <<>>

\* ------------------------------------------------------------------ C13
\* C13: a token issued manually (owner user_id 0, status active) is redeemed by
\* whichever user sends its id: the attempt returns a key, and the key belongs
\* to that user.
C13_UnclaimedRedeemable ==
    [][(/\ last'.op = "receive_token"
        /\ last'.arg \in Rows(tokens)
        /\ tokens[last'.arg].user_id = Unclaimed
        /\ tokens[last'.arg].status = "active")
       => /\ last'.reply = "KeyGenerated"
          /\ last'.key \in Rows(keys')
          /\ keys'[last'.key].user_id = last'.user]_vars

\* ------------------------------------------------------------------ C14
\* C14: a redemption attempt on an id that names no token, a token already
\* used, or a token owned by someone else ends with the rejection reply (no
\* exception), returns no key, adds no key row, changes no token, and ends
\* the conversation.
C14_RejectedRedemption ==
    [][(/\ last'.op = "receive_token"
        /\ ~(/\ last'.arg \in Rows(tokens)
              /\ tokens[last'.arg].user_id = last'.user
              /\ tokens[last'.arg].status = "active"))
       => /\ last'.reply = "InvalidToken"
          /\ last'.key = 0
          /\ keys' = keys
          /\ tokens' = tokens
          /\ convs'["conv_handler"][last'.user] = END]_vars

\* user 3 was refused its own used token while user 0's active token and an
\* unused id were there to be tried as well
C14_Witness ==
    /\ last.op = "receive_token"
    /\ last.reply = "InvalidToken"
    /\ last.arg \in Rows(tokens)
    /\ tokens[last.arg].status = "used"
    /\ tokens[last.arg].user_id = last.user
    /\ \E T \in Rows(tokens) : tokens[T].user_id = Unclaimed /\ tokens[T].status = "active"

\* ------------------------------------------------------------------ C15
\* C15: when an admin rejects a review that is pending, that row gets status
\* rejected, the admin as reviewer and a review time; every other row, every
\* token and every key stay as they were.
C15_Reject ==
    [][(/\ last'.op = "admin_reject_screenshot"
        /\ is_admin(last'.user)
        /\ last'.arg \in Rows(pending_transactions)
        /\ pending_transactions[last'.arg].status = "pending")
       => /\ pending_transactions' =
                [pending_transactions EXCEPT ![last'.arg].status = "rejected",
                                             ![last'.arg].reviewed_by = last'.user,
                                             ![last'.arg].reviewed_at = TRUE]
          /\ last'.reply = "Rejected"
          /\ ledger' = ledger]_vars

\* admin 2 rejected a review of buyer 3 that nobody had approved
C15_Witness ==
    /\ last.op = "admin_reject_screenshot"
    /\ last.user = 2
    /\ last.arg \in Rows(pending_transactions)
    /\ pending_transactions[last.arg].status = "rejected"
    /\ pending_transactions[last.arg].reviewed_by = 2
    /\ pending_transactions[last.arg].reviewed_at
    /\ tokens = <<>>
    /\ keys = <<>>

C17_CancelDiscards ==
    [][last'.op = "cancel"
       => /\ convs["conv_handler"][last'.user] # END
          /\ convs'["conv_handler"][last'.user] = END
          /\ user_data'[last'.user].selected_package_id = 0
          /\ UNCHANGED <<tokens, keys, pending_transactions>>]_vars

\* ------------------------------------------------------------------ C18
\* C18: a user with no active admin row who starts manual issuance, opens the
\* pending list, or presses approve or reject is answered Unauthorized, and
\* the handler changes no token, key or review row and opens no conversation.
AdminOnlyOps == {"admin_generate_token_callback", "admin_view_pending",
                 "admin_approve_screenshot", "admin_reject_screenshot"}

C18_NonAdminRefused ==
    [][(/\ last'.op \in AdminOnlyOps
        /\ \A i \in Rows(admins) :
              admins[i].telegram_id = last'.user => ~admins[i].is_active)
       => /\ last'.reply = "Unauthorized"
          /\ UNCHANGED <<tokens, keys, pending_transactions, convs>>]_vars

\* user 3, no admin, pressed approve on its own pending review and was refused
C18_Witness ==
    /\ last.op = "admin_approve_screenshot"
    /\ last.user = 3
    /\ ~is_admin(3)
    /\ last.reply = "Unauthorized"
    /\ last.arg \in Rows(pending_transactions)
    /\ pending_transactions[last.arg].status = "pending"
    /\ pending_transactions[last.arg].user_id = 3

\* ------------------------------------------------------------------ C19
\* C19: when the request times out or fails in transport, when the body does
\* not parse, or when no API token is configured, verify_transaction returns
\* ERROR; and a transaction-id submission whose verdict is ERROR ends as one
\* whose verdict is FAILED does: the failure reply, no token, no key.  Without
\* an API token every submission has the verdict ERROR.
NotConfigured == bot_settings = <<>> \/ bot_settings[1].api_token = None

C19_SoftFailure ==
    [][/\ (vt'.called /\ (NotConfigured \/ vt'.resp.transport \in {"timeout", "unparsable"}))
            => vt'.bot = "ERROR"
       /\ (last'.op = "handle_transaction_id_submission" /\ NotConfigured)
            => last'.verdict = "ERROR"
       /\ (last'.op = "handle_transaction_id_submission" /\ last'.verdict = "ERROR")
            => /\ last'.reply = "VerificationFailed"
               /\ last'.key = 0
               /\ ledger' = ledger]_vars

\* with an API token configured the call timed out, the function returned
\* ERROR, and the submission buyer 3 made ended with the failure reply while a
\* token from an earlier payment is on the ledger
C19_Witness ==
    /\ ~NotConfigured
    /\ vt.called
    /\ vt.resp.transport = "timeout"
    /\ vt.bot = "ERROR"
    /\ last.op = "handle_transaction_id_submission"
    /\ last.verdict = "ERROR"
    /\ last.reply = "VerificationFailed"
    /\ Len(tokens) = 1

\* ------------------------------------------------------------------ C20
\* C20: pressing the button of an existing package while no UPI route is
\* active answers that payment is not configured and leaves the buyer's
\* conversation Idle, with no token, key or review row changed; and a text or
\* photo is taken as a payment proof only from a buyer whose conversation is
\* awaiting proof, so never after such a press.
ProofOps == {"receive_payment_proof", "handle_screenshot_submission",
             "handle_transaction_id_submission"}

C20_NoUpiRoute ==
    [][/\ (/\ last'.op = "select_package_callback"
            /\ last'.arg \in Rows(packages)
            /\ \A i \in Rows(upi_config) : ~upi_config[i].is_active)
            => /\ last'.reply = "PaymentNotConfigured"
               /\ convs["conv_handler"][last'.user] = END
               /\ convs' = convs
               /\ UNCHANGED <<tokens, keys, pending_transactions>>
       /\ last'.op \in ProofOps
            => convs["conv_handler"][last'.user] = WAITING_PAYMENT_PROOF]_vars

\* buyer 3 pressed a package button after the only UPI route was deactivated
\* by a save that then failed, and stays Idle
C20_Witness ==
    /\ last.op = "select_package_callback"
    /\ last.reply = "PaymentNotConfigured"
    /\ last.arg \in Rows(packages)
    /\ upi_config # <<>>
    /\ get_upi_details = {}
    /\ convs["conv_handler"][3] = END

\* ------------------------------------------------------------------ C21
\* C21: in every reachable state a buyer's session holds a selected package id
\* only while that buyer's conversation is awaiting proof; in Idle (after a
\* proof, after a cancel, after a selection that found no UPI route) there is
\* none.
C21_SessionLifetime ==
    \A u \in Users :
        user_data[u].selected_package_id # 0
            => convs["conv_handler"][u] = WAITING_PAYMENT_PROOF

C23_NotificationKeyed ==
    [][\A r \in Rows(pending_transactions) :
        (/\ last'.op \in {"admin_approve_screenshot", "admin_reject_screenshot"}
         /\ is_admin(last'.user)
         /\ last'.arg = NotificationKey(r))
        => /\ pending_transactions'[r].status =
                 (IF last'.op = "admin_approve_screenshot" THEN "approved" ELSE "rejected")
           /\ \A q \in Rows(pending_transactions) \ {r} :
                 pending_transactions'[q] = pending_transactions[q]]_vars

\* ------------------------------------------------------------------ C24
\* C24: on a screenshot submission every admin with an active row either gets
\* the notification or is one of those whose delivery failed, whichever set of
\* deliveries fails; nobody without an active row gets it; the review row is
\* created and the buyer gets the acknowledgement in every case.
C24_FanOut ==
    [][last'.op = "handle_screenshot_submission"
       => LET active == {admins[i].telegram_id :
                            i \in {j \in Rows(admins) : admins[j].is_active}}
              n == Len(pending_transactions)
          IN  /\ last'.notified \cup last'.failed = active
              /\ last'.notified \cap last'.failed = {}
              /\ Len(pending_transactions') = n + 1
              /\ pending_transactions'[n + 1].status = "pending"
              /\ pending_transactions'[n + 1].user_id = last'.user
              /\ last'.reply = "ScreenshotReceived"]_vars

\* the delivery to admin 1 failed; admin 2, whose first row is inactive and
\* whose second is active, was notified, and the review is there
C24_Witness ==
    /\ last.op = "handle_screenshot_submission"
    /\ last.failed = {1}
    /\ last.notified = {2}
    /\ \E i \in Rows(admins) : ~admins[i].is_active
    /\ Len(pending_transactions) = 1
    /\ last.reply = "ScreenshotReceived"

\* ------------------------------------------------------------------ C25
\* C25: the last step of manual issuance, on a SUCCESS verdict, adds exactly
\* one token, with owner user_id 0, status active, the package the admin
\* picked and the reference typed, and no key; on any other verdict it adds
\* no token and no key; either way the issuance conversation ends.
C25_ManualIssuance ==
    [][last'.op = "admin_receive_transaction"
       => LET u == last'.user
              n == Len(tokens)
          IN  /\ convs["token_conv"][u] = ADMIN_WAITING_TXN
              /\ convs'["token_conv"][u] = END
              /\ keys' = keys
              /\ IF last'.verdict = "SUCCESS"
                 THEN /\ Len(tokens') = n + 1
                      /\ SubSeq(tokens', 1, n) = tokens
                      /\ tokens'[n + 1].user_id = Unclaimed
                      /\ tokens'[n + 1].status = "active"
                      /\ tokens'[n + 1].package_id = user_data[u].admin_package_id
                      /\ tokens'[n + 1].transaction_id = last'.ref
                      /\ last'.reply = "TokenGenerated"
                 ELSE /\ tokens' = tokens
                      /\ last'.reply = "VerificationFailed"]_vars

\* admin 2 (limited) issued a token: it has no owner, it is active, no key
\* exists, and admin 2's issuance conversation is over
C25_Witness ==
    /\ last.op = "admin_receive_transaction"
    /\ last.user = 2
    /\ last.verdict = "SUCCESS"
    /\ last.arg \in Rows(tokens)
    /\ tokens[last.arg].user_id = Unclaimed
    /\ tokens[last.arg].status = "active"
    /\ keys = <<>>
    /\ convs["token_conv"][2] = END

\* ------------------------------------------------------------------ C26
\* C26: whenever a handler inserts or updates a row of packages, upi_config,
\* admins or bot_settings, the user it runs for has an active admin row with
\* role super at that moment, also when the row was demoted or deactivated
\* after the flow began.
C26_RoleAtWrite ==
    [][(/\ last'.op # "db_update_admin"
        /\ <<packages, upi_config, admins, bot_settings>>'
              # <<packages, upi_config, admins, bot_settings>>)
       => \E i \in Rows(admins) : /\ admins[i].telegram_id = last'.user
                                  /\ admins[i].is_active
                                  /\ admins[i].role = "super"]_vars

\* ------------------------------------------------------------------ C27
\* C27: the package, UPI, admin and settings listings and the super-admin
\* panel are shown only to a user who has an active admin row with role super
\* at that moment.
SuperOnlyReplies == {"PackageList", "UpiList", "AdminList", "SettingsShown", "SuperPanel"}

C27_ListingsSuperOnly ==
    [][last'.reply \in SuperOnlyReplies
       => \E i \in Rows(admins) : /\ admins[i].telegram_id = last'.user
                                  /\ admins[i].is_active
                                  /\ admins[i].role = "super"]_vars

\* ------------------------------------------------------------------ C28
\* C28: a user with an active admin row of role limited who starts manual
\* issuance, opens the pending list, or presses approve or reject is never
\* answered Unauthorized.
C28_LimitedPermitted ==
    [][(/\ last'.op \in AdminOnlyOps
        /\ \E i \in Rows(admins) : /\ admins[i].telegram_id = last'.user
                                    /\ admins[i].is_active
                                    /\ admins[i].role = "limited")
       => last'.reply # "Unauthorized"]_vars

\* limited admin 2 has started manual issuance and has just rejected a review
C28_Witness ==
    /\ get_admin_role(2) = {"limited"}
    /\ last.op = "admin_reject_screenshot"
    /\ last.user = 2
    /\ last.reply = "Rejected"
    /\ convs["token_conv"][2] = ADMIN_WAITING_USERNAME

\* C29: in the add-package and add-admin flows a text that is not a number
\* (amount, validity or admin id) gets the re-prompt and nothing else: the
\* flow stays in the state it was in, no table is written, and the fields
\* collected so far are kept.
C29_DefensiveParsing ==
    [][/\ \A text \in AmountTexts :
            (text.kind = "bad" /\ admin_add_package_amount(1, text))
            => /\ last'.reply = "InvalidAmount"
               /\ convs' = convs
               /\ convs["pkg_conv"][1] = ADMIN_ADD_PKG_AMOUNT
               /\ UNCHANGED <<store, user_data>>
       /\ \A text \in ValidityTexts :
            (text.kind = "bad" /\ admin_add_package_validity(1, text))
            => /\ last'.reply = "InvalidValidity"
               /\ convs' = convs
               /\ convs["pkg_conv"][1] = ADMIN_ADD_PKG_VALIDITY
               /\ UNCHANGED <<store, user_data>>
       /\ \A text \in AdminIdTexts :
            (text.kind = "bad" /\ admin_add_admin_id(1, text))
            => /\ last'.reply = "InvalidUserId"
               /\ convs' = convs
               /\ convs["admin_conv"][1] = ADMIN_ADD_ADMIN_ID
               /\ UNCHANGED <<store, user_data>>]_vars

\* a validity that is not a number was answered after an amount was collected
C29_Witness ==
    /\ last.op = "admin_add_package_validity"
    /\ last.reply = "InvalidValidity"
    /\ convs["pkg_conv"][1] = ADMIN_ADD_PKG_VALIDITY
    /\ user_data[1].pkg_amount = 20000
    /\ packages = <<>>

\* C30: the token lifecycle is monotone.  No step removes a row of tokens or
\* changes anything of it but the status; a used token stays used; the
\* status is active or used; and a row a step adds is active, or is used
\* together with the key that the same handler wrote for it after the insert.
C30_TokenMonotone ==
    [][/\ Len(tokens') >= Len(tokens)
       /\ \A i \in Rows(tokens) :
            /\ [tokens'[i] EXCEPT !.status = "active"]
                   = [tokens[i] EXCEPT !.status = "active"]
            /\ tokens[i].status = "used" => tokens'[i].status = "used"
       /\ \A i \in Rows(tokens') :
            tokens'[i].status \in {"active", "used"}
       /\ \A i \in Rows(tokens') \ Rows(tokens) :
            \/ tokens'[i].status = "active"
            \/ \E k \in Rows(keys') \ Rows(keys) :
                    keys'[k].token_id = tokens'[i].token_id]_vars

\* a token that was left active by its purchase has been redeemed, and the
\* same token was redeemed a second time by a request that had selected it
\* while it was active
C30_Witness ==
    /\ Len(tokens) = 1
    /\ tokens[1].status = "used"
    /\ Len(keys) = 2
    /\ keys[1].token_id = 1
    /\ keys[2].token_id = 1
    /\ last.op = "receive_token"
    /\ last.reply = "KeyGenerated"
    /\ tasks = EmptyBag

\* C31: after a handler that ran to its reply, with no other handler in the
\* middle of its store calls, a token is used exactly when one keys row
\* carries its token_id, and the token_id of every keys row is that of a
\* tokens row.
C31_Correspondence ==
    (tasks = EmptyBag /\ last.reply # "Raised") =>
        /\ \A i \in Rows(tokens) :
              tokens[i].status = "used" <=> Cardinality(KeysOf(tokens[i].token_id)) = 1
        /\ \A k \in Rows(keys) :
              \E i \in Rows(tokens) : tokens[i].token_id = keys[k].token_id

\* C32: no flow writes the ledger before its terminal step.  A step that
\* changes tokens or keys is the proof or the manual issuance whose verdict
\* is SUCCESS, an approval, or the redemption that returns the key; every
\* other step, cancel and admin_cancel among them, leaves both tables as
\* they were.
C32_NoEarlyWrite ==
    [][(tokens' # tokens \/ keys' # keys)
       => \/ /\ last'.op \in {"handle_transaction_id_submission",
                                "admin_receive_transaction"}
             /\ last'.verdict = "SUCCESS"
          \/ last'.op = "admin_approve_screenshot"
          \/ /\ last'.op = "receive_token"
             /\ last'.reply = "KeyGenerated"]_vars

\* the buyer gave up after a reference that did not verify, the admin gave
\* up manual issuance at the package keyboard, and the ledger is empty
C32_Witness ==
    /\ last.op = "admin_cancel"
    /\ convs["token_conv"][1] = END
    /\ convs["conv_handler"][3] = END
    /\ user_data[3].selected_package_id = 1
    /\ tokens = <<>>
    /\ keys = <<>>

\* C33: bot_settings never holds more than one row, and a save of the
\* channel or of the API token into the existing row leaves the row's other
\* field as it was.
C33_Singleton ==
    [][/\ Len(bot_settings') <= 1
       /\ (last'.op = "admin_edit_channel_save" /\ bot_settings # <<>>)
          => bot_settings'[1].api_token = bot_settings[1].api_token
       /\ (last'.op = "admin_edit_api_save" /\ bot_settings # <<>>)
          => bot_settings'[1].force_channel = bot_settings[1].force_channel]_vars

\* the API token was saved into the row that a channel save had inserted,
\* and then replaced
C33_Witness ==
    /\ last.op = "admin_edit_api_save"
    /\ Len(bot_settings) = 1
    /\ bot_settings[1].force_channel = "@chan"
    /\ bot_settings[1].api_token = "tokB"

CancelOf(c, u) ==
    /\ IF c = "conv_handler" THEN cancel(u) ELSE admin_cancel(u)
    /\ convs'[c][u] = END

\* C35: in every state of every conversation other than END the user can
\* take the cancel step, and it brings that conversation back to END.
C35_CancelAvailable ==
    \A u \in Users, c \in ConvNames :
        convs[c][u] # END => ENABLED CancelOf(c, u)

\* C36: an Approve or Reject pressed by an admin with an id that is no row of
\* pending_transactions is answered with a message (the handler does not
\* raise) and leaves tokens, keys and pending_transactions as they were.
C36_UnknownReview ==
    [][(/\ last'.op \in {"admin_approve_screenshot", "admin_reject_screenshot"}
        /\ \E i \in Rows(admins) : /\ admins[i].telegram_id = last'.user
                                    /\ admins[i].is_active
        /\ last'.arg \notin Rows(pending_transactions))
       => /\ last'.reply # "Raised"
          /\ UNCHANGED <<tokens, keys, pending_transactions>>]_vars

C38_SelectionFixed ==
    [][\A u \in Buyers :
        convs["conv_handler"][u] = WAITING_PAYMENT_PROOF
        => /\ \A package_id \in Rows(packages) :
                 ~ENABLED select_package_callback(u, package_id)
           /\ convs'["conv_handler"][u] = WAITING_PAYMENT_PROOF
              => user_data'[u].selected_package_id = user_data[u].selected_package_id
           /\ \A txn_id \in OneTxn, resp \in IssueResponses :
                 receive_payment_proof(u, "text", txn_id, resp, 0, {})
                 => /\ last'.arg = user_data[u].selected_package_id
                    /\ last'.verdict =
                          verify_transaction(bot_settings, resp,
                             packages[user_data[u].selected_package_id].amount)]_vars

\* buyer 3 awaited proof for package 2 and the reference was verified
\* against its amount
C38_Witness ==
    /\ last.op = "handle_transaction_id_submission"
    /\ last.user = 3
    /\ last.arg = 2
    /\ last.verdict = "SUCCESS"
    /\ Len(tokens) = 1
    /\ tokens[1].package_id = 2
    /\ user_data[3].selected_package_id = 2

\* the handlers of text messages
TextOps ==
    {"handle_transaction_id_submission", "receive_token", "admin_receive_username",
     "admin_receive_transaction", "admin_add_package_name", "admin_add_package_desc",
     "admin_add_package_amount", "admin_add_package_validity", "admin_add_upi_id",
     "admin_add_upi_name", "admin_add_admin_id", "admin_edit_channel_save",
     "admin_edit_api_save"}

\* C39: when a user awaits proof as a buyer and is also in an admin state
\* that takes text, a text of that user is handled by one conversation only,
\* the buyer's (registered first): the admin conversations keep their states
\* and the session keeps every field collected so far.
C39_OneFlow ==
    [][\A u \in Users :
        (/\ convs["conv_handler"][u] = WAITING_PAYMENT_PROOF
         /\ \E c \in ConvNames \ {"conv_handler"} : convs[c][u] \in TextStates(c)
         /\ last'.user = u
         /\ last'.op \in TextOps)
        => /\ last'.op = "handle_transaction_id_submission"
           /\ convs'["conv_handler"][u] = END
           /\ \A c \in ConvNames \ {"conv_handler"} : convs'[c][u] = convs[c][u]
           /\ user_data'[u] = user_data[u]]_vars

\* admin 1 sent a reference while awaiting proof and while add-package
\* awaited the validity with an amount collected: the proof was handled and
\* the add-package flow is where it was
C39_Witness ==
    /\ last.op = "handle_transaction_id_submission"
    /\ last.user = 1
    /\ convs["conv_handler"][1] = END
    /\ convs["pkg_conv"][1] = ADMIN_ADD_PKG_VALIDITY
    /\ user_data[1].pkg_amount = 20000
    /\ convs["token_conv"][1] = ADMIN_WAITING_TXN

\* C40: /start of a user who had no row in users is announced to every
\* admin with an active row (each gets the message or is one of those whose
\* delivery failed), and /start of a user who had a row is announced to
\* nobody.
C40_NewUserNotified ==
    [][last'.op = "start"
       => IF last'.user \in users
          THEN last'.notified = {} /\ last'.failed = {}
          ELSE last'.notified \cup last'.failed = get_all_admins]_vars

====
